---- MODULE Spec2Model ----
(***************************************************************************)
(* Ingest-and-derive pipeline of the WA emergency dashboard:               *)
(*   src/src/utils.py        to_float                                      *)
(*   src/src/xml_parsers.py  fetch_xml, parse_observations_xml,            *)
(*                           parse_forecasts_xml, fetch_and_parse_*        *)
(*   src/src/bom_ingest.py   get_observations, get_forecasts and the cache *)
(*   src/src/transforms.py   calculate_zscore, assign_risk_band, the risk  *)
(*                           scores, rainfall metrics and pressure alert   *)
(*                                                                         *)
(* Numbers.  Python floats are modelled in fixed point:                    *)
(*   - a measurement (temperature, pressure, ...) is an integer number of  *)
(*     tenths, so "23.5" is 235 and 3.0 hPa is 30;                         *)
(*   - a z-score is an integer number of hundredths, truncated toward 0;   *)
(*   - a risk score is an integer number of thousandths, so 0.8 is 800.    *)
(* NaN / None in a numeric column is the value NaN below.  None in a       *)
(* string field is the value PyNone.  An exception is the record           *)
(* [type, message]; a function that can raise has a companion ..._raises   *)
(* giving the exception that leaves it.                                    *)
(***************************************************************************)
EXTENDS Integers, Sequences, FiniteSets, TLC

VARIABLES
    score,    \* argument handed to assign_risk_band
    band,     \* what assign_risk_band returned for it ("pending" before the call)
    series,   \* argument handed to calculate_zscore (a column)
    zs,       \* what calculate_zscore returned for it (<<>> before the call)
    df,       \* observation table handed to the transforms
    out,      \* table returned by the transform that ran
    op,       \* name of the function that has been called ("none" before the call)
    doc,      \* observation document handed to parse_observations_xml
    obs,      \* table returned by parse_observations_xml
    fdoc,     \* forecast document handed to parse_forecasts_xml
    fcst,     \* table returned by parse_forecasts_xml
    arg,      \* argument handed to to_float
    ret,      \* what to_float returned for it
    raised,   \* exception that left the function called (NoError when it returned)
    net,      \* how the network answered the last request
    requests, \* number of requests the last call made
    root,     \* document returned by fetch_xml
    cache,    \* st.cache_data entries of get_observations and get_forecasts
    now,      \* the clock, in units of 600 s
    returned, \* (DataFrame, fetch time) returned by get_observations / get_forecasts
    shown,    \* whether the last call showed an st.error message
    session,  \* st.session_state: df_obs, df_fcst, obs_time, fcst_time once they are set
    page,     \* what the last run of the app script put on the page
    summary,  \* dict returned by the summary function called
    icon_code, \* argument handed to get_weather_emoji
    emoji     \* what get_weather_emoji returned for it

vars ==
    <<score, band, series, zs, df, out, op, doc, obs, fdoc, fcst, arg, ret, raised,
      net, requests, root, cache, now, returned, shown,
      session, page, summary, icon_code, emoji>>

----------------------------------------------------------------------------
(* Bounds of the model *)

MaxScore == 400     \* probe scores range over -2.000 .. 2.000 in steps of 0.005
MaxLen == 3         \* longest column handed to calculate_zscore
MaxZVal == 3        \* largest measurement (tenths) in such a column
MaxRows == 2        \* most rows in a table handed to the risk scores
MaxAlertRows == 3   \* most rows in a table handed to the rainfall and pressure transforms
MaxStations == 2    \* most <station> elements in an observation document
MaxAreas == 2       \* most <area> elements in a forecast document
MaxPeriods == 8     \* most forecast-period children of an area
MaxTextLen == 4     \* longest text handed to to_float
MaxTime == 7        \* the clock stops after MaxTime * 600 s
MaxIconCode == 28    \* largest icon code handed to get_weather_emoji
MaxSummaryRows == 3 \* most rows in a table handed to the summary functions

----------------------------------------------------------------------------
(* Values *)

NaN == 0 - 999999999          \* np.nan / None in a numeric column
PosInf == 1000000000          \* float('inf')
NegInf == 0 - 1000000000      \* float('-inf')
PyNone == "<None>"            \* None in a string field
ZScale == 100                 \* z-scores are kept in hundredths
ScoreScale == 1000            \* scores are kept in thousandths

isna(x) == x = NaN

Abs(x) == IF x < 0 THEN 0 - x ELSE x
Sgn(x) == IF x < 0 THEN 0 - 1 ELSE IF x > 0 THEN 1 ELSE 0

RECURSIVE SqrtSearch(_, _, _)
\* largest r in lo..hi with r*r <= n, given lo*lo <= n < (hi+1)*(hi+1)
SqrtSearch(n, lo, hi) ==
    IF lo = hi THEN lo
    ELSE LET mid == (lo + hi + 1) \div 2
         IN  IF mid * mid <= n THEN SqrtSearch(n, mid, hi)
                               ELSE SqrtSearch(n, lo, mid - 1)

ISqrt(n) == SqrtSearch(n, 0, 1023)

Range(s) == {s[i] : i \in DOMAIN s}

RECURSIVE SeqsUpTo(_, _)
\* all sequences over S of length 0..n
SeqsUpTo(S, n) ==
    IF n = 0 THEN {<<>>}
    ELSE LET shorter == SeqsUpTo(S, n - 1)
         IN  shorter \cup {Append(q, x) : q \in {p \in shorter : Len(p) = n - 1}, x \in S}

----------------------------------------------------------------------------
(* transforms.py: configuration *)

RISK_BANDS ==
    << [lower |-> NegInf, upper |-> 0,      band |-> "Low"],
       [lower |-> 0,      upper |-> 800,    band |-> "Moderate"],
       [lower |-> 800,    upper |-> 1600,   band |-> "High"],
       [lower |-> 1600,   upper |-> PosInf, band |-> "Extreme"] >>

PRESSURE_ALERT_DEVIATION == 0 - 30     \* -3.0 hPa, in tenths

----------------------------------------------------------------------------
(* transforms.py: assign_risk_band *)

RECURSIVE FirstBand(_, _, _)
\* the for loop over a band table from position i on: first interval that holds wins
FirstBand(bands, s, i) ==
    IF i > Len(bands) THEN "Unknown"
    ELSE IF bands[i].lower <= s /\ s < bands[i].upper THEN bands[i].band
    ELSE FirstBand(bands, s, i + 1)

assign_risk_band_closed(s) ==
    IF isna(s) THEN "Unknown"
    ELSE IF s <= 0 THEN "Low"
    ELSE IF s <= 800 THEN "Moderate"
    ELSE IF s <= 1600 THEN "High"
    ELSE "Extreme"

assign_risk_band(s) ==
    IF isna(s) THEN "Unknown" ELSE FirstBand(RISK_BANDS, s, 1)

----------------------------------------------------------------------------
(* transforms.py: calculate_zscore *)

NonNull(s) == {i \in DOMAIN s : ~isna(s[i])}

RECURSIVE SumOver(_, _)
SumOver(s, I) ==
    IF I = {} THEN 0
    ELSE LET i == CHOOSE j \in I : TRUE IN s[i] + SumOver(s, I \ {i})

\* Series.count(), Series.sum(): NaN entries are skipped
count(s) == Cardinality(NonNull(s))
sum(s) == SumOver(s, NonNull(s))
sumsq(s) == SumOver([i \in DOMAIN s |-> IF isna(s[i]) THEN 0 ELSE s[i] * s[i]], NonNull(s))

\* Series.mean() is sum/count; every use below multiplies through by count,
\* so the mean is carried as the pair (sum, count).
\* Series.std() is sqrt(var) with var = SUM (x - mean)^2 / (count - ddof):
\*   SUM (x - mean)^2 = (count * sumsq - sum^2) / count =: SqDev / count
SqDev(s) == count(s) * sumsq(s) - sum(s) * sum(s)

\* pandas' default: ddof = 1, and the result is NaN when count - ddof <= 0
std_isna(s, ddof) == count(s) - ddof <= 0

\* (x - mean) / std in hundredths, truncated toward zero:
\*   x - mean = (count*x - sum) / count =: d / count
\*   std^2    = SqDev / (count * (count - ddof))
\*   z^2      = d^2 * (count - ddof) / (count * SqDev)
ZValue(n, total, sqdev, x, ddof) ==
    LET d == n * x - total
    IN  Sgn(d) * ISqrt((ZScale * ZScale * d * d * (n - ddof)) \div (n * sqdev))

zscore_ddof(s, ddof) ==
    LET n == count(s)
        total == sum(s)
        sqdev == SqDev(s)
    IN  IF \A i \in DOMAIN s : isna(s[i]) THEN [i \in DOMAIN s |-> NaN]
        ELSE IF std_isna(s, ddof) \/ sqdev = 0 THEN [i \in DOMAIN s |-> 0]
        ELSE [i \in DOMAIN s |->
                IF isna(s[i]) THEN NaN ELSE ZValue(n, total, sqdev, s[i], ddof)]

\* the guard "std == 0 or pd.isna(std)" reduced to "std == 0": a NaN std divides through
calculate_zscore_unguarded(s) ==
    IF \A i \in DOMAIN s : isna(s[i]) THEN [i \in DOMAIN s |-> NaN]
    ELSE IF std_isna(s, 1) THEN [i \in DOMAIN s |-> NaN]
    ELSE IF SqDev(s) = 0 THEN [i \in DOMAIN s |-> 0]
    ELSE [i \in DOMAIN s |->
            IF isna(s[i]) THEN NaN ELSE ZValue(count(s), sum(s), SqDev(s), s[i], 1)]

\* series / std: the mean is not subtracted
calculate_zscore_uncentred(s) ==
    IF \A i \in DOMAIN s : isna(s[i]) THEN [i \in DOMAIN s |-> NaN]
    ELSE IF std_isna(s, 1) \/ SqDev(s) = 0 THEN [i \in DOMAIN s |-> 0]
    ELSE [i \in DOMAIN s |->
            IF isna(s[i]) THEN NaN
            ELSE ZValue(count(s), 0, SqDev(s), s[i], 1)]

\* series.std(ddof=0)
calculate_zscore_population(s) == zscore_ddof(s, 0)

calculate_zscore(s) == zscore_ddof(s, 1)

----------------------------------------------------------------------------
(* pandas tables: a DataFrame is its list of columns and its rows, and a row
   maps every column to a value *)

DataFrame(cols, rows) == [columns |-> cols, rows |-> rows]

\* df.empty: some axis has length 0
empty(t) == Len(t.rows) = 0 \/ Len(t.columns) = 0

\* df[c]
Column(t, c) == [i \in DOMAIN t.rows |-> t.rows[i][c]]

\* a column joined to the table whether or not one of that name exists
SetColumn_append(t, c, v) ==
    [columns |-> Append(t.columns, c),
     rows |-> [i \in DOMAIN t.rows |-> (c :> v[i]) @@ t.rows[i]]]

\* df[c] = v: replaces the column when it exists, appends it otherwise
SetColumn(t, c, v) ==
    [columns |-> IF c \in Range(t.columns) THEN t.columns ELSE Append(t.columns, c),
     rows |-> [i \in DOMAIN t.rows |-> (c :> v[i]) @@ t.rows[i]]]

----------------------------------------------------------------------------
(* transforms.py: risk scores *)

\* z_temp - z_humidity + 0.5 * z_wind, hundredths in, thousandths out;
\* float arithmetic gives NaN as soon as one operand is NaN
fire_formula_plus(t) ==
    LET z_temp == calculate_zscore(Column(t, "air_temperature"))
        z_humidity == calculate_zscore(Column(t, "rel_humidity"))
        z_wind == calculate_zscore(Column(t, "wind_spd_kmh"))
    IN  [i \in DOMAIN t.rows |->
            IF isna(z_temp[i]) \/ isna(z_humidity[i]) \/ isna(z_wind[i]) THEN NaN
            ELSE 10 * z_temp[i] + 10 * z_humidity[i] + 5 * z_wind[i]]

fire_formula(t) ==
    LET z_temp == calculate_zscore(Column(t, "air_temperature"))
        z_humidity == calculate_zscore(Column(t, "rel_humidity"))
        z_wind == calculate_zscore(Column(t, "wind_spd_kmh"))
    IN  [i \in DOMAIN t.rows |->
            IF isna(z_temp[i]) \/ isna(z_humidity[i]) \/ isna(z_wind[i]) THEN NaN
            ELSE 10 * z_temp[i] - 10 * z_humidity[i] + 5 * z_wind[i]]

\* z_wind + 0.7 * z_gust
exposure_formula_unweighted(t) ==
    LET z_wind == calculate_zscore(Column(t, "wind_spd_kmh"))
        z_gust == calculate_zscore(Column(t, "gust_kmh"))
    IN  [i \in DOMAIN t.rows |->
            IF isna(z_wind[i]) \/ isna(z_gust[i]) THEN NaN
            ELSE 10 * z_wind[i] + 10 * z_gust[i]]

exposure_formula(t) ==
    LET z_wind == calculate_zscore(Column(t, "wind_spd_kmh"))
        z_gust == calculate_zscore(Column(t, "gust_kmh"))
    IN  [i \in DOMAIN t.rows |->
            IF isna(z_wind[i]) \/ isna(z_gust[i]) THEN NaN
            ELSE 10 * z_wind[i] + 7 * z_gust[i]]

\* formula_fn(df) for the two formula functions handed to calculate_risk_score
call(formula_fn, t) ==
    IF formula_fn = "fire_formula" THEN fire_formula(t) ELSE exposure_formula(t)

\* fillna(0) slipped in before banding
calculate_risk_score_fillna(t, score_col, band_col, formula_fn) ==
    LET scored == SetColumn(t, score_col, call(formula_fn, t))
    IN  SetColumn(scored, band_col,
            [i \in DOMAIN scored.rows |->
                assign_risk_band(IF isna(scored.rows[i][score_col]) THEN 0
                                 ELSE scored.rows[i][score_col])])

calculate_risk_score(t, score_col, band_col, formula_fn) ==
    LET scored == SetColumn(t, score_col, call(formula_fn, t))
    IN  SetColumn(scored, band_col,
            [i \in DOMAIN scored.rows |-> assign_risk_band(scored.rows[i][score_col])])

calculate_fire_risk(t) ==
    calculate_risk_score(t, "fire_risk_score", "fire_risk_band", "fire_formula")

calculate_coastal_exposure(t) ==
    calculate_risk_score(t, "exposure_score", "exposure_band", "exposure_formula")

----------------------------------------------------------------------------
(* transforms.py: rainfall metrics and pressure alert *)

\* intensity taken per 10 minutes of an hour of 60 ten-minute steps
calculate_rainfall_metrics_times_sixty(t) ==
    LET rainfall == Column(t, "rainfall")
        a == SetColumn(t, "rain_intensity_mmh",
                 [i \in DOMAIN t.rows |-> IF isna(rainfall[i]) THEN NaN ELSE rainfall[i] * 60])
        b == SetColumn(a, "rain_1h_est", rainfall)
    IN  SetColumn(b, "rain_24h", rainfall)

calculate_rainfall_metrics(t) ==
    LET rainfall == Column(t, "rainfall")
        a == SetColumn(t, "rain_intensity_mmh",
                 [i \in DOMAIN t.rows |-> IF isna(rainfall[i]) THEN NaN ELSE rainfall[i] * 6])
        b == SetColumn(a, "rain_1h_est", rainfall)
    IN  SetColumn(b, "rain_24h", rainfall)

DEFAULT_THRESHOLD_HPA == 0 - 30     \* threshold_hpa=-3.0, in tenths

\* "<" taken for "<=" in the comparison
detect_pressure_drops_leq(t, threshold_hpa) ==
    LET msl_pres == Column(t, "msl_pres")
        n == count(msl_pres)
    IN  SetColumn(t, "pressure_alert",
            [i \in DOMAIN t.rows |->
                /\ ~isna(msl_pres[i])
                /\ n * msl_pres[i] <= sum(msl_pres) + n * threshold_hpa])

\* mean_pressure is sum/count, NaN when no pressure is present; a comparison
\* with NaN on either side is False; then the rows with NaN pressure are set
\* to False
detect_pressure_drops(t, threshold_hpa) ==
    LET msl_pres == Column(t, "msl_pres")
        n == count(msl_pres)
        below == [i \in DOMAIN t.rows |->
                    /\ ~isna(msl_pres[i])
                    /\ n > 0
                    /\ n * msl_pres[i] < sum(msl_pres) + n * threshold_hpa]
    IN  SetColumn(t, "pressure_alert",
            [i \in DOMAIN t.rows |-> IF isna(msl_pres[i]) THEN FALSE ELSE below[i]])

----------------------------------------------------------------------------
(* transforms.py: apply_all_transforms *)

\* the eight columns the transforms add, in the order they are assigned
derived_cols ==
    <<"fire_risk_score", "fire_risk_band", "rain_intensity_mmh", "rain_1h_est",
      "rain_24h", "pressure_alert", "exposure_score", "exposure_band">>

\* the pressure alert left out of the chain
apply_all_transforms_without_alert(t) ==
    calculate_coastal_exposure(calculate_rainfall_metrics(calculate_fire_risk(t)))

apply_all_transforms(t) ==
    calculate_coastal_exposure(
        detect_pressure_drops(
            calculate_rainfall_metrics(calculate_fire_risk(t)),
            DEFAULT_THRESHOLD_HPA))

----------------------------------------------------------------------------
(* Python text and float().  A text is a sequence of one-character strings;
   NoneText stands for None where a text is expected (element.text of an empty
   element, a missing attribute). *)

NoneText == <<PyNone>>

Digits == <<"0", "1", "2", "3", "4", "5", "6", "7", "8", "9">>
IsDigit(c) == \E k \in DOMAIN Digits : Digits[k] = c
DigitVal(c) == (CHOOSE k \in DOMAIN Digits : Digits[k] = c) - 1

Unsigned(v) == IF Len(v) > 0 /\ v[1] \in {"+", "-"} THEN Tail(v) ELSE v

\* float(v) accepts: an optional sign, then digits with at most one "." among
\* them and at least one digit.  (Exponents, "inf", "nan" and surrounding
\* blanks, which float() accepts too, use characters the model's texts do not
\* contain.)
IsFloatLiteral(v) ==
    LET u == Unsigned(v)
    IN  /\ \A k \in DOMAIN u : u[k] = "." \/ IsDigit(u[k])
        /\ Cardinality({k \in DOMAIN u : u[k] = "."}) <= 1
        /\ \E k \in DOMAIN u : IsDigit(u[k])

RECURSIVE DigitsValue(_, _, _, _)
\* the number written by the digits u[k..last], continuing from acc
DigitsValue(u, k, last, acc) ==
    IF k > last THEN acc ELSE DigitsValue(u, k + 1, last, 10 * acc + DigitVal(u[k]))

\* float(v) in tenths, for a literal v (digits after the first decimal are cut)
FloatValue(v) ==
    LET u == Unsigned(v)
        dots == {k \in DOMAIN u : u[k] = "."}
        dot == IF dots = {} THEN Len(u) + 1 ELSE CHOOSE k \in dots : TRUE
        whole == DigitsValue(u, 1, dot - 1, 0)
        tenth == IF dot + 1 <= Len(u) THEN DigitVal(u[dot + 1]) ELSE 0
        magnitude == 10 * whole + tenth
    IN  IF Len(v) > 0 /\ v[1] = "-" THEN 0 - magnitude ELSE magnitude

\* a value that is neither None nor a str
PyList == <<"<list>">>

\* the exception class float(v) raises, "" when it returns
float_raises(v) ==
    IF v = NoneText \/ v = PyList THEN "TypeError"
    ELSE IF IsFloatLiteral(v) THEN ""
    ELSE "ValueError"

\* what leaves a try statement whose except clause names the classes caught
Escaping(exc, caught) == IF exc \in caught THEN "" ELSE exc

\* the first exception raised by a sequence of steps, "" when none raises
FirstRaised(excs) ==
    LET raising == {k \in DOMAIN excs : excs[k] # ""}
    IN  IF raising = {} THEN ""
        ELSE excs[CHOOSE k \in raising : \A j \in raising : k <= j]

----------------------------------------------------------------------------
(* utils.py: to_float *)

\* "except ValueError" taken for "except (ValueError, TypeError)"
to_float_raises_value_error_only(value) ==
    IF value = NoneText \/ value = <<>> THEN ""
    ELSE Escaping(float_raises(value), {"ValueError"})

\* the exception class that leaves to_float, "" when it returns
to_float_raises(value) ==
    IF value = NoneText \/ value = <<>> THEN ""
    ELSE Escaping(float_raises(value), {"ValueError", "TypeError"})

to_float(value) ==
    IF value = NoneText \/ value = <<>> THEN NaN
    ELSE IF IsFloatLiteral(value) THEN FloatValue(value)
    ELSE NaN

----------------------------------------------------------------------------
(* xml_parsers.py: parse_observations_xml

   An observation document is
     [observations |-> whether an <observations> container exists,
      stations     |-> its <station> children, in document order]
   a station is [bom_id, stn_name, lat, lon, periods], a period is
   [time_local, time_utc, levels] and an element is [type, text].  A missing
   string attribute is PyNone, a missing lat/lon attribute is NoneText. *)

\* xml_parsers.py: the 13 columns of an observation table
expected_cols ==
    << "station_id", "station_name", "lat", "lon", "time_local", "time_utc",
       "air_temperature", "rel_humidity", "wind_spd_kmh", "gust_kmh",
       "vis_km", "msl_pres", "rainfall" >>

\* station.get(name, default)
get(attr, default) == IF attr = PyNone THEN default ELSE attr

\* the if/elif chain: the column an element type is stored in ("" for none)
ElementColumn(element_type) ==
    IF element_type = "air_temperature" THEN "air_temperature"
    ELSE IF element_type = "rel-humidity" THEN "rel_humidity"
    ELSE IF element_type = "wind_spd_kmh" THEN "wind_spd_kmh"
    ELSE IF element_type = "gust_kmh" THEN "gust_kmh"
    ELSE IF element_type = "vis_km" THEN "vis_km"
    ELSE IF element_type = "msl_pres" THEN "msl_pres"
    ELSE IF element_type = "rainfall" THEN "rainfall"
    ELSE ""

RECURSIVE ReadElements(_, _, _)
\* the loop over level.findall('element') from position k on
ReadElements(elements, k, record) ==
    IF k > Len(elements) THEN record
    ELSE LET col == ElementColumn(get(elements[k].type, ""))
         IN  ReadElements(elements, k + 1,
                 IF col = "" THEN record
                 ELSE (col :> to_float(elements[k].text)) @@ record)

\* lat/lon: "float(x) if x else None" for both inside one try; a ValueError
\* of either conversion sets both to None
LatLon(station) ==
    LET lat_given == station.lat # NoneText /\ station.lat # <<>>
        lon_given == station.lon # NoneText /\ station.lon # <<>>
        raises == \/ (lat_given /\ ~IsFloatLiteral(station.lat))
                  \/ (lon_given /\ ~IsFloatLiteral(station.lon))
    IN  IF raises THEN [lat |-> NaN, lon |-> NaN]
        ELSE [lat |-> IF lat_given THEN FloatValue(station.lat) ELSE NaN,
              lon |-> IF lon_given THEN FloatValue(station.lon) ELSE NaN]

\* the dict built for a station that has a period
StationRecord(station) ==
    LET period == station.periods[1]
        base == [station_id |-> get(station.bom_id, "unknown"),
                 station_name |-> get(station.stn_name, "Unknown"),
                 lat |-> LatLon(station).lat,
                 lon |-> LatLon(station).lon,
                 time_local |-> get(period.time_local, PyNone),
                 time_utc |-> get(period.time_utc, PyNone)]
    IN  IF period.levels = <<>> THEN base
        ELSE ReadElements(period.levels[1], 1, base)

RECURSIVE Records(_, _)
\* the loop over observations.findall('station') from position k on
Records(stations, k) ==
    IF k > Len(stations) THEN <<>>
    ELSE IF stations[k].periods = <<>> THEN Records(stations, k + 1)
    ELSE <<StationRecord(stations[k])>> \o Records(stations, k + 1)

\* pd.DataFrame(records), the loop adding the missing expected columns, and
\* df[expected_cols]: a key a record lacks becomes NaN / None
Reindex(records, cols) ==
    DataFrame(cols,
        [k \in DOMAIN records |->
            [c \in Range(cols) |->
                IF c \in DOMAIN records[k] THEN records[k][c] ELSE NaN]])

\* pd.DataFrame(records) alone, without the column fix-up
parse_observations_xml_ragged(xml_root) ==
    IF ~xml_root.observations THEN DataFrame(<<>>, <<>>)
    ELSE LET records == Records(xml_root.stations, 1)
         IN  DataFrame(expected_cols,
                 [k \in DOMAIN records |-> records[k]])

\* the exception class that leaves the lat/lon try statement
LatLonRaises(station) ==
    LET lat_given == station.lat # NoneText /\ station.lat # <<>>
        lon_given == station.lon # NoneText /\ station.lon # <<>>
    IN  Escaping(FirstRaised(<<IF lat_given THEN float_raises(station.lat) ELSE "",
                               IF lon_given THEN float_raises(station.lon) ELSE "">>),
                 {"ValueError"})

\* the exception class that leaves the body of the station loop
StationRaises(station) ==
    FirstRaised(
        <<LatLonRaises(station)>>
        \o (IF station.periods = <<>> THEN <<>>
            ELSE IF station.periods[1].levels = <<>> THEN <<>>
            ELSE LET elements == station.periods[1].levels[1]
                 IN  [k \in DOMAIN elements |->
                         IF ElementColumn(get(elements[k].type, "")) = "" THEN ""
                         ELSE to_float_raises(elements[k].text)]))

\* the exception class that leaves parse_observations_xml, "" when it returns
parse_observations_xml_raises(xml_root) ==
    IF ~xml_root.observations THEN ""
    ELSE FirstRaised([k \in DOMAIN xml_root.stations |->
                         StationRaises(xml_root.stations[k])])

\* the "continue" for a station without <period> left out: such a station
\* gets a row of its attributes
RECURSIVE RecordsEveryStation(_, _)
RecordsEveryStation(stations, k) ==
    IF k > Len(stations) THEN <<>>
    ELSE <<IF stations[k].periods = <<>>
           THEN [station_id |-> get(stations[k].bom_id, "unknown"),
                 station_name |-> get(stations[k].stn_name, "Unknown"),
                 lat |-> LatLon(stations[k]).lat,
                 lon |-> LatLon(stations[k]).lon]
           ELSE StationRecord(stations[k])>> \o RecordsEveryStation(stations, k + 1)

parse_observations_xml_every_station(xml_root) ==
    IF ~xml_root.observations THEN DataFrame(<<>>, <<>>)
    ELSE Reindex(RecordsEveryStation(xml_root.stations, 1), expected_cols)

\* station.findall('period')[-1] taken for station.find('period')
RECURSIVE RecordsLastPeriod(_, _)
RecordsLastPeriod(stations, k) ==
    IF k > Len(stations) THEN <<>>
    ELSE IF stations[k].periods = <<>> THEN RecordsLastPeriod(stations, k + 1)
    ELSE <<StationRecord([stations[k] EXCEPT
                !.periods = <<stations[k].periods[Len(stations[k].periods)]>>])>>
         \o RecordsLastPeriod(stations, k + 1)

parse_observations_xml_last_period(xml_root) ==
    IF ~xml_root.observations THEN DataFrame(<<>>, <<>>)
    ELSE Reindex(RecordsLastPeriod(xml_root.stations, 1), expected_cols)


parse_observations_xml(xml_root) ==
    IF ~xml_root.observations THEN DataFrame(<<>>, <<>>)
    ELSE Reindex(Records(xml_root.stations, 1), expected_cols)

----------------------------------------------------------------------------
(* Python str comparison and int() *)

\* the characters of the model's texts, in code point order
CodePoints ==
    << "-", ".", "0", "1", "2", "3", "4", "5", "6", "7", "8", "9",
       "A", "P", "U", "a", "b", "e", "h", "k", "l", "n", "o", "r", "t", "w", "y" >>

\* rank of a character in code point order
ord(c) == CHOOSE k \in DOMAIN CodePoints : CodePoints[k] = c

RECURSIVE str_lt(_, _)
\* a < b for two str: the first differing character decides, a proper prefix
\* is smaller
str_lt(a, b) ==
    IF b = <<>> THEN FALSE
    ELSE IF a = <<>> THEN TRUE
    ELSE IF Head(a) = Head(b) THEN str_lt(Tail(a), Tail(b))
    ELSE ord(Head(a)) < ord(Head(b))

\* int(v) accepts an optional sign and then digits only
IsIntLiteral(v) ==
    LET u == Unsigned(v)
    IN  Len(u) > 0 /\ \A k \in DOMAIN u : IsDigit(u[k])

IntValue(v) ==
    LET u == Unsigned(v)
        magnitude == DigitsValue(u, 1, Len(u), 0)
    IN  IF v[1] = "-" THEN 0 - magnitude ELSE magnitude

----------------------------------------------------------------------------
(* xml_parsers.py: parse_forecasts_xml

   A forecast document is
     [forecast |-> whether a <forecast> container exists,
      areas    |-> its <area> children, in document order]
   an area is [description, aac, type, periods], a forecast-period is
   [index, start_time_local, elements, precis] and an element is [type, text].
   description and index are texts (NoneText when the attribute is missing),
   the other attributes are strings (PyNone when missing); precis is the text
   of the <text type="precis"> child, PyNone when there is none. *)

\* the 9 columns of a forecast table
forecast_cols ==
    << "locality_name", "area_code", "fcst_time", "period_index",
       "min_temp", "max_temp", "rain_probability", "precis_text", "icon_code" >>

Text_Unknown == <<"U", "n", "k", "n", "o", "w", "n">>

\* area.get('description', default), period.get('index', None)
get_text(attr, default) == IF attr = NoneText THEN default ELSE attr

\* the if/elif chain of the forecast elements ("" for none)
ForecastColumn(element_type) ==
    IF element_type = "air_temperature_minimum" THEN "min_temp"
    ELSE IF element_type = "air_temperature_maximum" THEN "max_temp"
    ELSE IF element_type = "probability_of_precipitation" THEN "rain_probability"
    ELSE IF element_type = "forecast_icon_code" THEN "icon_code"
    ELSE ""

RECURSIVE ReadForecastElements(_, _, _)
\* the loop over period.findall('element') from position k on
ReadForecastElements(elements, k, record) ==
    IF k > Len(elements) THEN record
    ELSE LET col == ForecastColumn(get(elements[k].type, ""))
         IN  ReadForecastElements(elements, k + 1,
                 IF col = "" THEN record
                 ELSE (col :> to_float(elements[k].text)) @@ record)

\* "int(s) if s is not None else None" inside try / except (ValueError, TypeError)
PeriodIndex(period_index_str) ==
    IF period_index_str = NoneText THEN NaN
    ELSE IF IsIntLiteral(period_index_str) THEN IntValue(period_index_str)
    ELSE NaN

\* the dict built for one forecast-period of an area
PeriodRecord(area, period) ==
    ("precis_text" :> period.precis)
    @@ ReadForecastElements(period.elements, 1,
           [locality_name |-> get_text(area.description, Text_Unknown),
            area_code |-> get(area.aac, "unknown"),
            fcst_time |-> get(period.start_time_local, PyNone),
            period_index |-> PeriodIndex(period.index)])

RECURSIVE AreaRecords(_, _, _)
\* the loop over the first n forecast-period children of an area, from position j on
AreaRecords(area, j, n) ==
    IF j > n THEN <<>>
    ELSE <<PeriodRecord(area, area.periods[j])>> \o AreaRecords(area, j + 1, n)

RECURSIVE ForecastRecords(_, _)
\* the loop over forecast_root.findall('area') from position k on
ForecastRecords(areas, k) ==
    IF k > Len(areas) THEN <<>>
    ELSE IF get(areas[k].type, "") # "location" THEN ForecastRecords(areas, k + 1)
    ELSE AreaRecords(areas[k], 1, Len(areas[k].periods)) \o ForecastRecords(areas, k + 1)

\* the order of sort_values(['locality_name', 'period_index']): ascending, a
\* null period_index after every number
index_lt(x, y) == ~isna(x) /\ (isna(y) \/ x < y)

key_lt(a, b) ==
    \/ str_lt(a.locality_name, b.locality_name)
    \/ (a.locality_name = b.locality_name /\ index_lt(a.period_index, b.period_index))

\* row put after the last row of a sorted list that is not greater than it
Insert(sorted, row) ==
    LET before == {k \in DOMAIN sorted : ~key_lt(row, sorted[k])}
        n == Cardinality(before)
    IN  SubSeq(sorted, 1, n) \o <<row>> \o SubSeq(sorted, n + 1, Len(sorted))

RECURSIVE SortRows(_, _)
\* stable sort of rows[1..n]
SortRows(rows, n) ==
    IF n = 0 THEN <<>> ELSE Insert(SortRows(rows, n - 1), rows[n])

sort_values(t) == DataFrame(t.columns, SortRows(t.rows, Len(t.rows)))

\* the exception class int(v) raises, "" when it returns
int_raises(v) ==
    IF v = NoneText \/ v = PyList THEN "TypeError"
    ELSE IF IsIntLiteral(v) THEN ""
    ELSE "ValueError"

\* the exception class that leaves the body of the forecast-period loop, the
\* index conversion letting through what is not in caught
PeriodRaises(period, caught) ==
    FirstRaised(
        <<IF period.index = NoneText THEN ""
          ELSE Escaping(int_raises(period.index), caught)>>
        \o [k \in DOMAIN period.elements |->
               IF ForecastColumn(get(period.elements[k].type, "")) = "" THEN ""
               ELSE to_float_raises(period.elements[k].text)])

AreaRaises(area, caught) ==
    IF get(area.type, "") # "location" THEN ""
    ELSE FirstRaised([j \in DOMAIN area.periods |-> PeriodRaises(area.periods[j], caught)])

\* int(period_index_str) outside the try statement
parse_forecasts_xml_raises_bare_int(xml_root) ==
    IF ~xml_root.forecast THEN ""
    ELSE FirstRaised([k \in DOMAIN xml_root.areas |-> AreaRaises(xml_root.areas[k], {})])

\* the exception class that leaves parse_forecasts_xml, "" when it returns
parse_forecasts_xml_raises(xml_root) ==
    IF ~xml_root.forecast THEN ""
    ELSE FirstRaised([k \in DOMAIN xml_root.areas |->
                         AreaRaises(xml_root.areas[k], {"ValueError", "TypeError"})])

\* the test "area_type != 'location'" left out
RECURSIVE ForecastRecordsAllAreas(_, _)
ForecastRecordsAllAreas(areas, k) ==
    IF k > Len(areas) THEN <<>>
    ELSE AreaRecords(areas[k], 1, Len(areas[k].periods))
         \o ForecastRecordsAllAreas(areas, k + 1)

parse_forecasts_xml_all_areas(xml_root) ==
    IF ~xml_root.forecast THEN DataFrame(<<>>, <<>>)
    ELSE sort_values(Reindex(ForecastRecordsAllAreas(xml_root.areas, 1), forecast_cols))

\* periods[:7] taken for periods
RECURSIVE ForecastRecordsFirstSeven(_, _)
ForecastRecordsFirstSeven(areas, k) ==
    IF k > Len(areas) THEN <<>>
    ELSE IF get(areas[k].type, "") # "location" THEN ForecastRecordsFirstSeven(areas, k + 1)
    ELSE AreaRecords(areas[k], 1,
             IF Len(areas[k].periods) > 7 THEN 7 ELSE Len(areas[k].periods))
         \o ForecastRecordsFirstSeven(areas, k + 1)

parse_forecasts_xml_first_seven(xml_root) ==
    IF ~xml_root.forecast THEN DataFrame(<<>>, <<>>)
    ELSE sort_values(Reindex(ForecastRecordsFirstSeven(xml_root.areas, 1), forecast_cols))

\* the sort_values call left out
parse_forecasts_xml_unsorted(xml_root) ==
    IF ~xml_root.forecast THEN DataFrame(<<>>, <<>>)
    ELSE Reindex(ForecastRecords(xml_root.areas, 1), forecast_cols)

parse_forecasts_xml(xml_root) ==
    IF ~xml_root.forecast THEN DataFrame(<<>>, <<>>)
    ELSE sort_values(Reindex(ForecastRecords(xml_root.areas, 1), forecast_cols))

----------------------------------------------------------------------------
(* Specification of assign_risk_band on its own *)

Scores == {5 * k : k \in (0 - MaxScore)..MaxScore} \cup {NaN}

IdleTable == [columns |-> <<>>, rows |-> <<>>]
IdleDoc == [observations |-> FALSE, stations |-> <<>>]
IdleFDoc == [forecast |-> FALSE, areas |-> <<>>]

\* an exception, and the absence of one
Raise(type, message) == [type |-> type, message |-> message]
NoError == Raise("", "")

IdleForecast == fdoc = IdleFDoc /\ fcst = IdleTable
IdleToFloat == arg = NoneText /\ ret = NaN /\ raised = NoError

\* an HTTP exchange: how the transport ended, the status of the response and
\* its body (whether it is well-formed XML, and the document it holds)
Body(well_formed, document) == [well_formed |-> well_formed, root |-> document]
Answer(transport, status, body) == [transport |-> transport, status |-> status, body |-> body]
NoAnswer == Answer("none", 0, Body(FALSE, IdleDoc))

\* a cache entry and the empty cache
Entry(valid, val, stored_at) == [valid |-> valid, value |-> val, stored_at |-> stored_at]
Returned(table, fetch_time) == [df |-> table, fetch_time |-> fetch_time]
NoReturn == Returned(IdleTable, NaN)
EmptyCache ==
    [get_observations |-> Entry(FALSE, NoReturn, 0),
     get_forecasts |-> Entry(FALSE, NoReturn, 0),
     load_all_data |-> Entry(FALSE, [obs_df |-> IdleTable, fcst_df |-> IdleTable,
                                     obs_time |-> NaN, fcst_time |-> NaN], 0)]

\* st.session_state before the first run, the page before anything is drawn,
\* no summary and no icon
Session(present, df_obs, df_fcst, obs_time, fcst_time) ==
    [present |-> present, df_obs |-> df_obs, df_fcst |-> df_fcst,
     obs_time |-> obs_time, fcst_time |-> fcst_time]
NoSession == Session(FALSE, IdleTable, IdleTable, NaN, NaN)

\* a page: how the run ended, the "Last update" caption of the sidebar, and
\* the tables and times handed to the dashboards
Page(status, caption, shown_obs_time, shown_fcst_time, loaded) ==
    [status |-> status, caption |-> caption,
     shown_obs_time |-> shown_obs_time, shown_fcst_time |-> shown_fcst_time,
     df_obs |-> loaded.obs_df, df_fcst |-> loaded.fcst_df,
     obs_time |-> loaded.obs_time, fcst_time |-> loaded.fcst_time]

\* the tuple load_all_data returns
Loaded(obs_df, fcst_df, obs_time, fcst_time) ==
    [obs_df |-> obs_df, fcst_df |-> fcst_df, obs_time |-> obs_time, fcst_time |-> fcst_time]
NoLoad == Loaded(IdleTable, IdleTable, NaN, NaN)

NoPage == Page("none", "", NaN, NaN, NoLoad)
NoSummary == [none |-> TRUE]

\* a Python value handed to get_weather_emoji: None, a float (in tenths) or a str
None == [type |-> "NoneType", value |-> NaN, text |-> <<>>]
Float(x) == [type |-> "float", value |-> x, text |-> <<>>]
Str(v) == [type |-> "str", value |-> NaN, text |-> v]
IdlePresentation ==
    /\ session = NoSession /\ page = NoPage
    /\ summary = NoSummary /\ icon_code = None /\ emoji = ""

IdleFeeds ==
    /\ net = NoAnswer /\ requests = 0 /\ root = IdleDoc
    /\ cache = EmptyCache /\ now = 0 /\ returned = NoReturn /\ shown = FALSE

IdleIngest == IdleFeeds /\ IdlePresentation

InitBand ==
    /\ score \in Scores
    /\ band = "pending"
    /\ series = <<>> /\ zs = <<>>
    /\ df = IdleTable /\ out = IdleTable /\ op = "none"
    /\ doc = IdleDoc /\ obs = IdleTable
    /\ IdleForecast /\ IdleToFloat /\ IdleIngest

AssignRiskBand ==
    /\ op = "none"
    /\ band' = assign_risk_band(score)
    /\ op' = "assign_risk_band"
    /\ UNCHANGED <<score, series, zs, df, out, doc, obs, fdoc, fcst, arg, ret, raised,
                 net, requests, root, cache, now, returned, shown,
                   session, page, summary, icon_code, emoji>>

NextBand == AssignRiskBand

SpecBand == InitBand /\ [][NextBand]_vars

----------------------------------------------------------------------------
(* Specification of calculate_zscore on its own *)

ZVals == (0..MaxZVal) \cup {NaN}

InitZscore ==
    /\ series \in SeqsUpTo(ZVals, MaxLen)
    /\ zs = <<>>
    /\ score = NaN /\ band = "pending"
    /\ df = IdleTable /\ out = IdleTable /\ op = "none"
    /\ doc = IdleDoc /\ obs = IdleTable
    /\ IdleForecast /\ IdleToFloat /\ IdleIngest

CalculateZscore ==
    /\ op = "none"
    /\ zs' = calculate_zscore(series)
    /\ op' = "calculate_zscore"
    /\ UNCHANGED <<score, band, series, df, out, doc, obs, fdoc, fcst, arg, ret, raised,
                 net, requests, root, cache, now, returned, shown,
                   session, page, summary, icon_code, emoji>>

NextZscore == CalculateZscore

SpecZscore == InitZscore /\ [][NextZscore]_vars

----------------------------------------------------------------------------
(* Specification of the transforms on an observation table *)

Vals == {NaN, 0, 1}                         \* temperature, humidity, wind, gust
PresVals == {NaN, 10000, 10060, 10080}      \* 1000.0, 1006.0, 1008.0 hPa
RainVals == {NaN, 0, 2}

Reading(t, h, w, g, p, r) ==
    [air_temperature |-> t, rel_humidity |-> h, wind_spd_kmh |-> w,
     gust_kmh |-> g, msl_pres |-> p, rainfall |-> r]

\* the readings of one station: one group of sensors varies freely at a time
FireReadings == {Reading(t, h, w, 0, 10060, 0) : t \in Vals, h \in Vals, w \in Vals}
CoastReadings == {Reading(0, 0, w, g, 10060, 0) : w \in Vals, g \in Vals}
AlertReadings == {Reading(0, 0, 0, 0, p, r) : p \in PresVals, r \in RainVals}

StationNames == <<"Perth", "Albany", "Broome", "Kalbarri", "Esperance">>

\* the i-th row of an observation table with reading m
ObsRow(i, m) ==
    [station_id |-> "unknown", station_name |-> StationNames[i],
     lat |-> NaN, lon |-> NaN, time_local |-> PyNone, time_utc |-> PyNone,
     vis_km |-> NaN] @@ m

\* the observation tables of at most n stations with readings from a set
ObsTables(readings, n) ==
    {DataFrame(expected_cols, [i \in DOMAIN ms |-> ObsRow(i, ms[i])]) :
        ms \in SeqsUpTo(readings, n)}

InitTransforms(readings, n) ==
    /\ df \in ObsTables(readings, n)
    /\ out = IdleTable /\ op = "none"
    /\ score = NaN /\ band = "pending"
    /\ series = <<>> /\ zs = <<>>
    /\ doc = IdleDoc /\ obs = IdleTable
    /\ IdleForecast /\ IdleToFloat /\ IdleIngest

Init == InitTransforms(FireReadings \cup CoastReadings, MaxRows)

InitAlerts == InitTransforms(AlertReadings, MaxAlertRows)

Transform(name, result) ==
    /\ op = "none"
    /\ out' = result
    /\ op' = name
    /\ UNCHANGED <<score, band, series, zs, df, doc, obs, fdoc, fcst, arg, ret, raised,
                 net, requests, root, cache, now, returned, shown,
                   session, page, summary, icon_code, emoji>>

CalculateFireRisk == Transform("calculate_fire_risk", calculate_fire_risk(df))

CalculateRainfallMetrics ==
    Transform("calculate_rainfall_metrics", calculate_rainfall_metrics(df))

DetectPressureDrops ==
    Transform("detect_pressure_drops", detect_pressure_drops(df, DEFAULT_THRESHOLD_HPA))

CalculateCoastalExposure ==
    Transform("calculate_coastal_exposure", calculate_coastal_exposure(df))

ApplyAllTransforms == Transform("apply_all_transforms", apply_all_transforms(df))

\* the risk scores, on tables whose temperature, humidity, wind and gust vary
Next ==
    \/ CalculateFireRisk
    \/ CalculateCoastalExposure
    \/ ApplyAllTransforms

Spec == Init /\ [][Next]_vars

\* the rainfall metrics and the pressure alert, on tables whose pressure and
\* rainfall vary
NextAlerts ==
    \/ CalculateRainfallMetrics
    \/ DetectPressureDrops
    \/ ApplyAllTransforms

SpecAlerts == InitAlerts /\ [][NextAlerts]_vars

----------------------------------------------------------------------------
(* Specification of parse_observations_xml on an observation document *)

Element(type, text) == [type |-> type, text |-> text]
Period(time_local, time_utc, levels) ==
    [time_local |-> time_local, time_utc |-> time_utc, levels |-> levels]
Station(bom_id, stn_name, lat, lon, periods) ==
    [bom_id |-> bom_id, stn_name |-> stn_name, lat |-> lat, lon |-> lon,
     periods |-> periods]

Text_23_5 == <<"2", "3", ".", "5">>
Text_18 == <<"1", "8">>
Text_neg == <<"-", "1", ".", "5">>
Text_abc == <<"a", "b", "c">>
Text_lat == <<"-", "3", "1", ".", "9">>
Text_lon == <<"1", "1", "5", ".", "8">>

KnownTypes ==
    {"air_temperature", "rel-humidity", "wind_spd_kmh", "gust_kmh",
     "vis_km", "msl_pres", "rainfall"}

\* <level> contents: every type once, every kind of text, repeated and
\* unrecognized types
LevelSamples ==
    {<<Element(ty, Text_23_5)>> : ty \in KnownTypes \cup {"cloud", PyNone}}
    \cup {<<Element("air_temperature", tx)>> :
            tx \in {NoneText, <<>>, Text_abc, Text_18, Text_neg}}
    \cup { <<>>,
           <<Element("air_temperature", Text_23_5), Element("air_temperature", Text_18)>>,
           <<Element("air_temperature", Text_23_5), Element("air_temperature", Text_abc)>>,
           <<Element("rainfall", Text_18), Element("cloud", Text_23_5)>>,
           <<Element("air_temperature", Text_23_5), Element("rel-humidity", Text_18),
             Element("wind_spd_kmh", Text_18), Element("gust_kmh", Text_23_5),
             Element("vis_km", Text_18), Element("msl_pres", Text_23_5),
             Element("rainfall", Text_neg)>> }

BasePeriod ==
    Period("10:00+08", "02:00Z", << <<Element("air_temperature", Text_23_5)>> >>)
LaterPeriod ==
    Period("09:50+08", "01:50Z",
           << <<Element("air_temperature", Text_18), Element("rainfall", Text_18)>> >>)

\* <period> children of a station: none, one without <level>, with or
\* without its time attributes, and two periods
PeriodSamples ==
    {<<Period(tl, tu, <<>>)>> : tl \in {PyNone, "10:00+08"}, tu \in {PyNone, "02:00Z"}}
    \cup { <<>>,
           <<BasePeriod, LaterPeriod>>,
           <<Period("10:00+08", "02:00Z", <<>>), LaterPeriod>> }

AttrTexts == {NoneText, <<>>, Text_abc, Text_lat}

\* the <station> elements: one aspect of a station varies at a time
StationSamples ==
    {Station("009021", "PERTH", lat, lon, <<BasePeriod>>) :
        lat \in AttrTexts, lon \in AttrTexts}
    \cup {Station(id, name, Text_lat, Text_lon, <<BasePeriod>>) :
        id \in {PyNone, "009021"}, name \in {PyNone, "PERTH"}}
    \cup {Station("009021", "PERTH", Text_lat, Text_lon, ps) : ps \in PeriodSamples}
    \cup {Station("009021", "PERTH", Text_lat, Text_lon,
                  <<Period("10:00+08", "02:00Z", <<lv>>)>>) : lv \in LevelSamples}

\* the documents with at most n stations, and the document without an
\* <observations> container
ObsDocs(n) ==
    {[observations |-> TRUE, stations |-> st] : st \in SeqsUpTo(StationSamples, n)}
    \cup {[observations |-> FALSE, stations |-> <<>>]}

InitParse ==
    /\ doc \in ObsDocs(MaxStations)
    /\ obs = IdleTable /\ op = "none"
    /\ score = NaN /\ band = "pending"
    /\ series = <<>> /\ zs = <<>>
    /\ df = IdleTable /\ out = IdleTable
    /\ IdleForecast /\ IdleToFloat /\ IdleIngest

ParseObservationsXml ==
    /\ op = "none"
    /\ raised' = Raise(parse_observations_xml_raises(doc), "")
    /\ obs' = IF raised' = NoError THEN parse_observations_xml(doc) ELSE obs
    /\ op' = "parse_observations_xml"
    /\ UNCHANGED <<score, band, series, zs, df, out, doc, fdoc, fcst, arg, ret,
                 net, requests, root, cache, now, returned, shown,
                   session, page, summary, icon_code, emoji>>

NextParse == ParseObservationsXml

SpecParse == InitParse /\ [][NextParse]_vars

----------------------------------------------------------------------------
(* Specification of parse_forecasts_xml on a forecast document *)

FPeriod(index, start_time_local, elements, precis) ==
    [index |-> index, start_time_local |-> start_time_local,
     elements |-> elements, precis |-> precis]
Area(description, aac, type, periods) ==
    [description |-> description, aac |-> aac, type |-> type, periods |-> periods]

Text_Perth == <<"P", "e", "r", "t", "h">>
Text_Albany == <<"A", "l", "b", "a", "n", "y">>
Text_albany == <<"a", "l", "b", "a", "n", "y">>

Days == <<"Mon", "Tue", "Wed", "Thu", "Fri", "Sat", "Sun", "Mon+7", "Tue+7", "Wed+7">>

\* the forecast-period published with index i (0..9): maximum only
Day(i) ==
    FPeriod(<<Digits[i + 1]>>, Days[i + 1],
            <<Element("air_temperature_maximum", Text_23_5)>>, "Sunny.")

\* a forecast-period whose index attribute is the given text
Indexed(index) == FPeriod(index, PyNone, <<>>, PyNone)

\* the <element> children of a forecast-period
ForecastElementSamples ==
    { <<Element("air_temperature_minimum", Text_18),
        Element("air_temperature_maximum", Text_23_5),
        Element("probability_of_precipitation", Text_18),
        Element("forecast_icon_code", Text_18)>>,
      <<Element("air_temperature_minimum", Text_abc)>>,
      <<Element("air_temperature_minimum", NoneText)>>,
      <<Element("precipitation_range", Text_18), Element(PyNone, Text_18)>> }

\* the forecast-period children of an area: none, one, out of order, with an
\* absent, empty, malformed or negative index, more than seven
ForecastPeriodSamples(n) ==
    { <<>>,
      <<Day(0)>>,
      <<Day(2), Day(0), Day(1)>>,
      <<Day(1), Indexed(NoneText), Day(0)>>,
      <<Indexed(Text_abc), Day(0)>>,
      <<Indexed(Text_23_5), Indexed(<<>>)>>,
      <<Indexed(NoneText), Indexed(NoneText)>>,
      <<Day(1), Indexed(<<"-", "1">>)>>,
      [i \in 1..n |-> Day(n - i)] }
    \cup {<<FPeriod(<<"0">>, "Mon", es, PyNone)>> : es \in ForecastElementSamples}

\* the <area> elements: one aspect of an area varies at a time
AreaSamples(n) ==
    {Area(description, "WA_PT053", type, <<Day(1), Day(0)>>) :
        description \in {Text_Perth, Text_Albany, Text_albany, NoneText},
        type \in {"location", "public-district", PyNone}}
    \cup {Area(Text_Perth, PyNone, "location", <<Day(0)>>)}
    \cup {Area(Text_Perth, "WA_PT053", "location", ps) : ps \in ForecastPeriodSamples(n)}

\* the documents with at most n areas, and the document without a <forecast>
\* container
ForecastDocs(n, periods) ==
    {[forecast |-> TRUE, areas |-> a] : a \in SeqsUpTo(AreaSamples(periods), n)}
    \cup {[forecast |-> FALSE, areas |-> <<>>]}

InitForecast ==
    /\ fdoc \in ForecastDocs(MaxAreas, MaxPeriods)
    /\ fcst = IdleTable /\ op = "none"
    /\ score = NaN /\ band = "pending"
    /\ series = <<>> /\ zs = <<>>
    /\ df = IdleTable /\ out = IdleTable
    /\ doc = IdleDoc /\ obs = IdleTable
    /\ IdleToFloat /\ IdleIngest

ParseForecastsXml ==
    /\ op = "none"
    /\ raised' = Raise(parse_forecasts_xml_raises(fdoc), "")
    /\ fcst' = IF raised' = NoError THEN parse_forecasts_xml(fdoc) ELSE fcst
    /\ op' = "parse_forecasts_xml"
    /\ UNCHANGED <<score, band, series, zs, df, out, doc, obs, fdoc, arg, ret,
                 net, requests, root, cache, now, returned, shown,
                   session, page, summary, icon_code, emoji>>

NextForecast == ParseForecastsXml

SpecForecast == InitForecast /\ [][NextForecast]_vars

----------------------------------------------------------------------------
(* Specification of both parsers: a document of either feed is parsed *)

InitParsers ==
    /\ \/ doc \in ObsDocs(MaxStations) /\ fdoc = IdleFDoc
       \/ doc = IdleDoc /\ fdoc \in ForecastDocs(MaxAreas, MaxPeriods)
    /\ obs = IdleTable /\ fcst = IdleTable /\ op = "none"
    /\ score = NaN /\ band = "pending"
    /\ series = <<>> /\ zs = <<>>
    /\ df = IdleTable /\ out = IdleTable
    /\ IdleToFloat /\ IdleIngest

NextParsers ==
    \/ ParseObservationsXml
    \/ ParseForecastsXml

SpecParsers == InitParsers /\ [][NextParsers]_vars

----------------------------------------------------------------------------
(* Specification of to_float on its own *)

TextChars == {"2", "3", "5", ".", "-", "a", "b", "c"}

\* None, a value of another type, and every text of at most n characters
ToFloatInputs(n) == {NoneText, PyList} \cup SeqsUpTo(TextChars, n)

InitToFloat ==
    /\ arg \in ToFloatInputs(MaxTextLen)
    /\ ret = NaN /\ raised = NoError /\ op = "none"
    /\ score = NaN /\ band = "pending"
    /\ series = <<>> /\ zs = <<>>
    /\ df = IdleTable /\ out = IdleTable
    /\ doc = IdleDoc /\ obs = IdleTable
    /\ IdleForecast /\ IdleIngest

ToFloat ==
    /\ op = "none"
    /\ raised' = Raise(to_float_raises(arg), "")
    /\ ret' = IF raised' = NoError THEN to_float(arg) ELSE ret
    /\ op' = "to_float"
    /\ UNCHANGED <<score, band, series, zs, df, out, doc, obs, fdoc, fcst, arg,
                 net, requests, root, cache, now, returned, shown,
                   session, page, summary, icon_code, emoji>>

NextToFloat == ToFloat

SpecToFloat == InitToFloat /\ [][NextToFloat]_vars

----------------------------------------------------------------------------
(* xml_parsers.py: fetch_xml *)

\* the subclass of requests.exceptions.RequestException that requests.get or
\* response.raise_for_status() raises, "" when neither does: raise_for_status
\* raises for the statuses 400..599 only
RequestException(answer) ==
    IF answer.transport # "ok" THEN answer.transport
    ELSE IF 400 <= answer.status /\ answer.status < 600 THEN "HTTPError"
    ELSE ""

\* whether etree.fromstring(response.content) raises etree.XMLSyntaxError
XMLSyntaxError(answer) == ~answer.body.well_formed

\* both except clauses raising the same message
fetch_xml_raises_one_message(answer) ==
    IF RequestException(answer) # "" THEN Raise("Exception", "Failed to fetch data from")
    ELSE IF XMLSyntaxError(answer) THEN Raise("Exception", "Failed to fetch data from")
    ELSE NoError

\* the exception that leaves fetch_xml, NoError when it returns
fetch_xml_raises(answer) ==
    IF RequestException(answer) # "" THEN Raise("Exception", "Failed to fetch data from")
    ELSE IF XMLSyntaxError(answer) THEN Raise("Exception", "Failed to parse XML from")
    ELSE NoError

fetch_xml(answer) == answer.body.root

----------------------------------------------------------------------------
(* Specification of fetch_xml on its own *)

Malformed == Body(FALSE, IdleDoc)

\* the answers of the network: no answer at all, an answer without content,
\* and the other statuses with each body
Answers(documents) ==
    {Answer(transport, 0, Malformed) : transport \in {"ConnectionError", "Timeout"}}
    \cup {Answer("ok", status, Malformed) : status \in {204, 304}}
    \cup {Answer("ok", status, body) :
            status \in {200, 404, 500, 503},
            body \in {Body(TRUE, d) : d \in documents} \cup {Malformed}}

InitFetch ==
    /\ op = "none"
    /\ score = NaN /\ band = "pending"
    /\ series = <<>> /\ zs = <<>>
    /\ df = IdleTable /\ out = IdleTable
    /\ doc = IdleDoc /\ obs = IdleTable
    /\ IdleForecast /\ IdleToFloat /\ IdleIngest

FetchXml ==
    /\ op = "none"
    /\ \E answer \in Answers(ObsDocs(1) \cup ForecastDocs(1, 1)) :
          /\ net' = answer
          /\ requests' = 1
          /\ raised' = fetch_xml_raises(answer)
          /\ root' = IF raised' = NoError THEN fetch_xml(answer) ELSE root
    /\ op' = "fetch_xml"
    /\ UNCHANGED <<score, band, series, zs, df, out, doc, obs, fdoc, fcst, arg, ret,
                   cache, now, returned, shown,
                   session, page, summary, icon_code, emoji>>

NextFetch == FetchXml

SpecFetch == InitFetch /\ [][NextFetch]_vars

----------------------------------------------------------------------------
(* xml_parsers.py: fetch_and_parse_observations, fetch_and_parse_forecasts;
   bom_ingest.py: get_observations, get_forecasts *)

\* the exception that leaves fetch_and_parse_*: nothing is caught there
fetch_and_parse_observations_raises(answer) ==
    IF fetch_xml_raises(answer) # NoError THEN fetch_xml_raises(answer)
    ELSE Raise(parse_observations_xml_raises(fetch_xml(answer)), "")

fetch_and_parse_forecasts_raises(answer) ==
    IF fetch_xml_raises(answer) # NoError THEN fetch_xml_raises(answer)
    ELSE Raise(parse_forecasts_xml_raises(fetch_xml(answer)), "")

\* (df, fetch_time) with fetch_time = datetime.now()
fetch_and_parse_observations(answer, time) ==
    Returned(parse_observations_xml(fetch_xml(answer)), time)

fetch_and_parse_forecasts(answer, time) ==
    Returned(parse_forecasts_xml(fetch_xml(answer)), time)

\* the body of get_observations: "except Exception" shows an error and
\* returns (pd.DataFrame(), None)
get_observations(answer, time) ==
    IF fetch_and_parse_observations_raises(answer) = NoError
    THEN fetch_and_parse_observations(answer, time)
    ELSE Returned(DataFrame(<<>>, <<>>), NaN)

get_forecasts(answer, time) ==
    IF fetch_and_parse_forecasts_raises(answer) = NoError
    THEN fetch_and_parse_forecasts(answer, time)
    ELSE Returned(DataFrame(<<>>, <<>>), NaN)

\* @st.cache_data(ttl=600) and @st.cache_data(ttl=3600), in units of 600 s
OBSERVATIONS_TTL == 1
FORECASTS_TTL == 6

\* st.cache_data: an entry is served until its age reaches the ttl
Hit(entry, ttl, time) == entry.valid /\ time - entry.stored_at < ttl

----------------------------------------------------------------------------
(* Specification of the ingest functions under their cache *)

ObsFeed ==
    { [observations |-> TRUE, stations |-> <<>>],
      [observations |-> TRUE,
       stations |-> <<Station("009021", "PERTH", Text_lat, Text_lon, <<BasePeriod>>)>>] }

FcstFeed ==
    { [forecast |-> TRUE, areas |-> <<>>],
      [forecast |-> TRUE,
       areas |-> <<Area(Text_Perth, "WA_PT053", "location", <<Day(0)>>)>>] }

\* what a request to a feed can meet
FeedAnswers(documents) ==
    { Answer("Timeout", 0, Malformed),
      Answer("ok", 503, Malformed),
      Answer("ok", 200, Malformed) }
    \cup {Answer("ok", 200, Body(TRUE, d)) : d \in documents}

InitIngest ==
    /\ op = "none"
    /\ score = NaN /\ band = "pending"
    /\ series = <<>> /\ zs = <<>>
    /\ df = IdleTable /\ out = IdleTable
    /\ doc = IdleDoc /\ obs = IdleTable
    /\ IdleForecast /\ IdleToFloat /\ IdleIngest

\* a call served from the cache: the function body does not run, the
\* st.error element of the cached run is replayed
Served(name) ==
    /\ returned' = cache[name].value
    /\ net' = NoAnswer /\ requests' = 0
    /\ shown' = isna(cache[name].value.fetch_time)
    /\ UNCHANGED cache

\* a call whose body ran against an answer and returned val
Ran(name, answer, val, failure) ==
    /\ returned' = val
    /\ net' = answer /\ requests' = 1 /\ shown' = (failure # NoError)
    /\ cache' = [cache EXCEPT ![name] = Entry(TRUE, val, now)]

GetObservations ==
    /\ IF Hit(cache.get_observations, OBSERVATIONS_TTL, now)
       THEN Served("get_observations")
       ELSE \E answer \in FeedAnswers(ObsFeed) :
               Ran("get_observations", answer, get_observations(answer, now),
                   fetch_and_parse_observations_raises(answer))
    /\ raised' = NoError
    /\ op' = "get_observations"
    /\ UNCHANGED <<score, band, series, zs, df, out, doc, obs, fdoc, fcst, arg, ret,
                   root, now,
                   session, page, summary, icon_code, emoji>>

GetForecasts ==
    /\ IF Hit(cache.get_forecasts, FORECASTS_TTL, now)
       THEN Served("get_forecasts")
       ELSE \E answer \in FeedAnswers(FcstFeed) :
               Ran("get_forecasts", answer, get_forecasts(answer, now),
                   fetch_and_parse_forecasts_raises(answer))
    /\ raised' = NoError
    /\ op' = "get_forecasts"
    /\ UNCHANGED <<score, band, series, zs, df, out, doc, obs, fdoc, fcst, arg, ret,
                   root, now,
                   session, page, summary, icon_code, emoji>>

\* 600 s pass
Tick ==
    /\ now < MaxTime
    /\ now' = now + 1
    /\ UNCHANGED <<score, band, series, zs, df, out, op, doc, obs, fdoc, fcst, arg, ret,
                   raised, net, requests, root, cache, returned, shown,
                   session, page, summary, icon_code, emoji>>

NextIngest ==
    \/ GetObservations
    \/ GetForecasts
    \/ Tick

SpecIngest == InitIngest /\ [][NextIngest]_vars

----------------------------------------------------------------------------
(* transforms.py: get_weather_emoji.  A glyph is written as its code points. *)

WEATHER_ICON_MAP ==
    1 :> "U+2600 U+FE0F" @@
    2 :> "U+1F324 U+FE0F" @@
    3 :> "U+26C5" @@
    4 :> "U+2601 U+FE0F" @@
    6 :> "U+2601 U+FE0F" @@
    8 :> "U+1F326 U+FE0F" @@
    9 :> "U+1F326 U+FE0F" @@
    10 :> "U+1F327 U+FE0F" @@
    11 :> "U+1F327 U+FE0F" @@
    12 :> "U+1F327 U+FE0F" @@
    13 :> "U+26C8 U+FE0F" @@
    14 :> "U+26C8 U+FE0F" @@
    15 :> "U+26C8 U+FE0F" @@
    16 :> "U+26C8 U+FE0F" @@
    17 :> "U+26C8 U+FE0F" @@
    18 :> "U+1F9CA" @@
    19 :> "U+1F4A8" @@
    20 :> "U+1F32B U+FE0F" @@
    21 :> "U+1F32B U+FE0F" @@
    22 :> "U+1F32B U+FE0F" @@
    23 :> "U+1F32B U+FE0F" @@
    24 :> "U+2744 U+FE0F" @@
    25 :> "U+1F328 U+FE0F" @@
    26 :> "U+1F300"

DEFAULT_WEATHER_ICON == "U+1F321 U+FE0F"

\* pd.isna(icon_code) for a scalar
pd_isna(code) == code.type = "NoneType" \/ (code.type = "float" /\ isna(code.value))

\* what int(float(icon_code)) raises: float() as in to_float, then int() of an
\* infinity raises OverflowError
int_float_raises(code) ==
    IF code.type = "str" THEN float_raises(code.text)
    ELSE IF code.value = PosInf \/ code.value = NegInf THEN "OverflowError"
    ELSE ""

\* int(float(icon_code)): the fraction is cut off toward zero
int_float(code) ==
    LET x == IF code.type = "str" THEN FloatValue(code.text) ELSE code.value
    IN  Sgn(x) * (Abs(x) \div 10)

\* dict.get(key, default)
dict_get(d, key, default) == IF key \in DOMAIN d THEN d[key] ELSE default

\* the exception that leaves get_weather_emoji
get_weather_emoji_raises(code) ==
    IF pd_isna(code) THEN ""
    ELSE Escaping(int_float_raises(code), {"ValueError", "TypeError"})

get_weather_emoji(code) ==
    IF pd_isna(code) THEN "U+2753"
    ELSE IF int_float_raises(code) # "" THEN DEFAULT_WEATHER_ICON
    ELSE dict_get(WEATHER_ICON_MAP, int_float(code), DEFAULT_WEATHER_ICON)

----------------------------------------------------------------------------
(* Specification of get_weather_emoji: one call on one icon code *)

\* icon codes as the forecast table holds them (None, NaN, floats with and
\* without a fraction, the infinities) and as text
IconCodes(n) ==
    {None, Float(NaN), Float(PosInf), Float(NegInf)}
    \cup {Float(x) : x \in (0 - 15)..(10 * n + 9)}
    \cup {Str(v) : v \in {<<"1", "2">>, <<"3", ".", "7">>, <<"5">>, <<"9", "9">>,
                          <<"a", "b", "c">>, <<>>}}

InitEmoji ==
    /\ icon_code \in IconCodes(MaxIconCode)
    /\ emoji = "" /\ op = "none"
    /\ session = NoSession /\ page = NoPage /\ summary = NoSummary
    /\ score = NaN /\ band = "pending"
    /\ series = <<>> /\ zs = <<>>
    /\ df = IdleTable /\ out = IdleTable
    /\ doc = IdleDoc /\ obs = IdleTable
    /\ IdleForecast /\ IdleToFloat /\ IdleFeeds

GetWeatherEmoji ==
    /\ op = "none"
    /\ op' = "get_weather_emoji"
    /\ raised' = Raise(get_weather_emoji_raises(icon_code), "")
    /\ emoji' = IF get_weather_emoji_raises(icon_code) = "" THEN get_weather_emoji(icon_code)
                ELSE ""
    /\ UNCHANGED <<score, band, series, zs, df, out, doc, obs, fdoc, fcst, arg, ret,
                   net, requests, root, cache, now, returned, shown,
                   session, page, summary, icon_code>>

NextEmoji == GetWeatherEmoji

SpecEmoji == InitEmoji /\ [][NextEmoji]_vars

----------------------------------------------------------------------------
(* transforms.py: summary statistics.  A dict is a function from its keys. *)

EmptyDict == [k \in {} |-> 0]
pop(d, k) == [j \in DOMAIN d \ {k} |-> d[j]]
put(d, k, v) == (k :> v) @@ d

\* df[df[score_col].notna()]: the index labels of the rows kept
notna_rows(t, score_col) == {i \in DOMAIN t.rows : ~isna(t.rows[i][score_col])}

\* Series.idxmax(): the label of the first occurrence of the maximum
idxmax(t, c, labels) ==
    CHOOSE i \in labels :
        /\ \A j \in labels : t.rows[j][c] <= t.rows[i][c]
        /\ \A j \in labels : t.rows[j][c] = t.rows[i][c] => i <= j

\* the last occurrence of the maximum instead
idxmax_last(t, c, labels) ==
    CHOOSE i \in labels :
        /\ \A j \in labels : t.rows[j][c] <= t.rows[i][c]
        /\ \A j \in labels : t.rows[j][c] = t.rows[i][c] => j <= i

\* Series.mean() of the rows kept, in thousandths, truncated toward zero
mean(t, c, labels) ==
    LET total == SumOver(Column(t, c), labels)
    IN  Sgn(total) * (Abs(total) \div Cardinality(labels))

\* Series.value_counts().to_dict(): every value that occurs, with its count
value_counts(t, c, labels) ==
    [b \in {t.rows[i][c] : i \in labels} |-> Cardinality({i \in labels : t.rows[i][c] = b})]

\* the test "if valid.empty" left out: idxmax of an empty Series raises
get_summary_for_score_raises_unguarded(t, score_col, band_col) ==
    IF empty(t) \/ score_col \notin Range(t.columns) THEN NoError
    ELSE IF notna_rows(t, score_col) = {}
         THEN Raise("ValueError", "attempt to get argmax of an empty sequence")
    ELSE IF band_col \notin Range(t.columns) THEN Raise("KeyError", band_col)
    ELSE NoError

\* the KeyError of a column the valid rows are asked for and do not have
get_summary_for_score_raises(t, score_col, band_col) ==
    IF empty(t) \/ score_col \notin Range(t.columns) THEN NoError
    ELSE IF notna_rows(t, score_col) = {} THEN NoError
    ELSE IF band_col \notin Range(t.columns) THEN Raise("KeyError", band_col)
    ELSE IF "station_name" \notin Range(t.columns) THEN Raise("KeyError", "station_name")
    ELSE NoError

get_summary_for_score_last(t, score_col, band_col) ==
    IF empty(t) \/ score_col \notin Range(t.columns) THEN EmptyDict
    ELSE LET valid == notna_rows(t, score_col)
         IN  IF valid = {} THEN [error |-> <<"No valid ", score_col, " data">>]
             ELSE LET highest == t.rows[idxmax_last(t, score_col, valid)]
                  IN  [highest_station |-> highest.station_name,
                       highest_score |-> highest[score_col],
                       highest_band |-> highest[band_col],
                       mean_score |-> mean(t, score_col, valid),
                       band_counts |-> value_counts(t, band_col, valid),
                       stations_with_data |-> Cardinality(valid)]

get_summary_for_score(t, score_col, band_col) ==
    IF empty(t) \/ score_col \notin Range(t.columns) THEN EmptyDict
    ELSE LET valid == notna_rows(t, score_col)
         IN  IF valid = {} THEN [error |-> <<"No valid ", score_col, " data">>]
             ELSE LET highest == t.rows[idxmax(t, score_col, valid)]
                  IN  [highest_station |-> highest.station_name,
                       highest_score |-> highest[score_col],
                       highest_band |-> highest[band_col],
                       mean_score |-> mean(t, score_col, valid),
                       band_counts |-> value_counts(t, band_col, valid),
                       stations_with_data |-> Cardinality(valid)]

\* the three keys renamed when the summary has them
renamed(d, station_key, score_key, band_key) ==
    IF "highest_station" \in DOMAIN d
    THEN LET a == put(pop(d, "highest_station"), station_key, d.highest_station)
             b == put(pop(a, "highest_score"), score_key, d.highest_score)
         IN  put(pop(b, "highest_band"), band_key, d.highest_band)
    ELSE d

get_fire_risk_summary(t) ==
    renamed(get_summary_for_score(t, "fire_risk_score", "fire_risk_band"),
            "highest_risk_station", "highest_risk_score", "highest_risk_band")

LOW_VISIBILITY_KM == 100     \* vis_km < 10, in tenths

get_coastal_summary(t) ==
    LET d == renamed(get_summary_for_score(t, "exposure_score", "exposure_band"),
                    "highest_exposure_station", "highest_exposure_score",
                    "highest_exposure_band")
    IN  IF ~empty(t) /\ "vis_km" \in Range(t.columns)
        THEN put(d, "low_visibility_count",
                 Cardinality({i \in DOMAIN t.rows :
                                /\ ~isna(t.rows[i].vis_km)
                                /\ t.rows[i].vis_km < LOW_VISIBILITY_KM}))
        ELSE d

----------------------------------------------------------------------------
(* Specification of the summaries: one summary function on one table *)

\* the readings of a station: the temperature sensor may be missing, and the
\* gust reading with it; visibility is low where the air is humid
SummaryReadings ==
    {Reading(t, h, w, IF isna(t) THEN NaN ELSE w, 10060, 0) :
        t \in {NaN, 0, 3}, h \in {0, 2}, w \in {0, 1}}

SummaryRow(i, m) ==
    [ObsRow(i, m) EXCEPT !.vis_km = IF m.rel_humidity = 0 THEN 200 ELSE 50]

\* pd.DataFrame(), tables as parsed, and tables as transformed
SummaryTables(n) ==
    LET parsed == {DataFrame(expected_cols, [i \in DOMAIN ms |-> SummaryRow(i, ms[i])]) :
                      ms \in SeqsUpTo(SummaryReadings, n)}
    IN  {DataFrame(<<>>, <<>>)}
        \cup {t \in parsed : Len(t.rows) <= 1}
        \cup {apply_all_transforms(t) : t \in parsed}

InitSummary ==
    /\ df \in SummaryTables(MaxSummaryRows)
    /\ out = IdleTable /\ op = "none"
    /\ score = NaN /\ band = "pending"
    /\ series = <<>> /\ zs = <<>>
    /\ doc = IdleDoc /\ obs = IdleTable
    /\ IdleForecast /\ IdleToFloat /\ IdleIngest

Summarise(name, result, exc) ==
    /\ op = "none"
    /\ op' = name
    /\ raised' = exc
    /\ summary' = IF exc = NoError THEN result ELSE NoSummary
    /\ UNCHANGED <<score, band, series, zs, df, out, doc, obs, fdoc, fcst, ret,
                   net, requests, root, cache, now, returned, shown,
                   session, page, icon_code, emoji>>

\* the score and band columns get_summary_for_score is asked about
ScoreColumns ==
    { <<"fire_risk_score", "fire_risk_band">>,
      <<"exposure_score", "exposure_band">>,
      <<"fire_risk_score", "risk_band">> }

GetSummaryForScore ==
    \E cols \in ScoreColumns :
        /\ arg' = <<cols[1], cols[2]>>
        /\ Summarise("get_summary_for_score",
                     get_summary_for_score(df, cols[1], cols[2]),
                     get_summary_for_score_raises(df, cols[1], cols[2]))

GetFireRiskSummary ==
    /\ arg' = <<"fire_risk_score", "fire_risk_band">>
    /\ Summarise("get_fire_risk_summary", get_fire_risk_summary(df),
                 get_summary_for_score_raises(df, "fire_risk_score", "fire_risk_band"))

GetCoastalSummary ==
    /\ arg' = <<"exposure_score", "exposure_band">>
    /\ Summarise("get_coastal_summary", get_coastal_summary(df),
                 get_summary_for_score_raises(df, "exposure_score", "exposure_band"))

NextSummary ==
    \/ GetSummaryForScore
    \/ GetFireRiskSummary
    \/ GetCoastalSummary

SpecSummary == InitSummary /\ [][NextSummary]_vars

----------------------------------------------------------------------------
(* app.py: load_all_data, the Refresh Data handler, the sidebar caption and
   the initial load.  One run of the script is one action. *)

LOAD_ALL_DATA_TTL == 1      \* @st.cache_data(ttl=600), in units of 600 s

\* a call of a cached function: what it returns and the cache afterwards
Called(val, c) == [value |-> val, cache |-> c]

\* get_observations() through its cache; fresh is what its body returns when
\* it runs at this time
cached_get_observations(c, time, fresh) ==
    IF Hit(c.get_observations, OBSERVATIONS_TTL, time)
    THEN Called(c.get_observations.value, c)
    ELSE Called(fresh, [c EXCEPT !.get_observations = Entry(TRUE, fresh, time)])

cached_get_forecasts(c, time, fresh) ==
    IF Hit(c.get_forecasts, FORECASTS_TTL, time)
    THEN Called(c.get_forecasts.value, c)
    ELSE Called(fresh, [c EXCEPT !.get_forecasts = Entry(TRUE, fresh, time)])

\* the body of load_all_data
load_all_data_body(c, time, fresh_obs, fresh_fcst) ==
    LET o == cached_get_observations(c, time, fresh_obs)
        f == cached_get_forecasts(o.cache, time, fresh_fcst)
        obs_df == IF ~empty(o.value.df) THEN apply_all_transforms(o.value.df)
                  ELSE o.value.df
    IN  Called(Loaded(obs_df, f.value.df, o.value.fetch_time, f.value.fetch_time),
               f.cache)

load_all_data(c, time, fresh_obs, fresh_fcst) ==
    IF Hit(c.load_all_data, LOAD_ALL_DATA_TTL, time)
    THEN Called(c.load_all_data.value, c)
    ELSE LET ran == load_all_data_body(c, time, fresh_obs, fresh_fcst)
         IN  Called(ran.value,
                    [ran.cache EXCEPT !.load_all_data = Entry(TRUE, ran.value, time)])

\* x.strftime(...) raises AttributeError when x is None
strftime_raises(x) == IF isna(x) THEN "AttributeError" ELSE ""

\* the exception that leaves the "Last update" caption of the sidebar
caption_raises(state) ==
    IF state.present
    THEN FirstRaised(<<strftime_raises(state.obs_time), strftime_raises(state.fcst_time)>>)
    ELSE ""

\* the initial load: a key is written only when it is not in the session yet
initial_load(state, loaded) ==
    IF state.present THEN state
    ELSE Session(TRUE, loaded.obs_df, loaded.fcst_df, loaded.obs_time, loaded.fcst_time)

\* the Refresh Data handler after load_all_data: a timestamp is replaced only
\* when its table changed, the tables always
refresh_session(state, loaded) ==
    Session(TRUE, loaded.obs_df, loaded.fcst_df,
            IF loaded.obs_df # state.df_obs THEN loaded.obs_time ELSE state.obs_time,
            IF loaded.fcst_df # state.df_fcst THEN loaded.fcst_time ELSE state.fcst_time)

----------------------------------------------------------------------------
(* Specification of the app: runs of the script, Refresh clicks, time *)

\* what a request of the app can meet: a timeout or one of the documents
AppAnswers(documents) ==
    {Answer("Timeout", 0, Malformed)}
    \cup {Answer("ok", 200, Body(TRUE, d)) : d \in documents}

InitApp ==
    /\ op = "none"
    /\ score = NaN /\ band = "pending"
    /\ series = <<>> /\ zs = <<>>
    /\ df = IdleTable /\ out = IdleTable
    /\ doc = IdleDoc /\ obs = IdleTable
    /\ IdleForecast /\ IdleToFloat /\ IdleIngest

\* what the bodies of get_observations and get_forecasts can return at a time
FreshObservations(time) == {get_observations(a, time) : a \in AppAnswers(ObsFeed)}
FreshForecasts(time) == {get_forecasts(a, time) : a \in AppAnswers(FcstFeed)}

\* a run of the script without a button clicked: sidebar caption, initial
\* load, then st.stop() on an empty observation table or the dashboards
PageRun ==
    /\ \E fresh_obs \in FreshObservations(now), fresh_fcst \in FreshForecasts(now) :
       \E l \in {load_all_data(cache, now, fresh_obs, fresh_fcst)} :
          IF caption_raises(session) # ""
          THEN /\ page' = Page("crashed", "", NaN, NaN, NoLoad)
               /\ raised' = Raise(caption_raises(session), "")
               /\ UNCHANGED <<session, cache>>
          ELSE /\ cache' = l.cache
               /\ session' = initial_load(session, l.value)
               /\ raised' = NoError
               /\ page' = Page(IF empty(l.value.obs_df) THEN "stopped" ELSE "rendered",
                               IF session.present THEN "Last update"
                               ELSE "Loading data timestamps...",
                               session.obs_time, session.fcst_time, l.value)
    /\ op' = "page_run"
    /\ UNCHANGED <<score, band, series, zs, df, out, doc, obs, fdoc, fcst, arg, ret,
                   net, requests, root, now, returned, shown, summary, icon_code, emoji>>

\* a run with Refresh Data clicked: the handler ends in st.rerun(), so nothing
\* below it is drawn and the script runs again at once
Refresh ==
    /\ session.present
    /\ page.status # "rerun"
    /\ \E fresh_obs \in FreshObservations(now), fresh_fcst \in FreshForecasts(now) :
       \E l \in {load_all_data(EmptyCache, now, fresh_obs, fresh_fcst)} :
          /\ cache' = l.cache
          /\ session' = refresh_session(session, l.value)
    /\ page' = Page("rerun", "", NaN, NaN, NoLoad)
    /\ raised' = NoError
    /\ op' = "refresh"
    /\ UNCHANGED <<score, band, series, zs, df, out, doc, obs, fdoc, fcst, arg, ret,
                   net, requests, root, now, returned, shown, summary, icon_code, emoji>>

\* 600 s pass while a page is on display
Wait ==
    /\ page.status # "rerun"
    /\ Tick

NextApp ==
    \/ PageRun
    \/ Refresh
    \/ Wait

SpecApp == InitApp /\ [][NextApp]_vars

----------------------------------------------------------------------------
(* C1: assign_risk_band is total and is given by the ordered half-open
   intervals: null -> Unknown, s < 0.0 -> Low, 0.0 <= s < 0.8 -> Moderate,
   0.8 <= s < 1.6 -> High, s >= 1.6 -> Extreme; so -0.01 is Low, 0.0 and
   0.79 are Moderate, 0.8 and 1.59 are High and 1.6 is Extreme. *)
C1_BandIntervals ==
    op = "assign_risk_band" =>
        /\ band \in {"Low", "Moderate", "High", "Extreme", "Unknown"}
        /\ (band = "Unknown")  <=> isna(score)
        /\ (band = "Low")      <=> (~isna(score) /\ score < 0)
        /\ (band = "Moderate") <=> (~isna(score) /\ 0 <= score /\ score < 800)
        /\ (band = "High")     <=> (~isna(score) /\ 800 <= score /\ score < 1600)
        /\ (band = "Extreme")  <=> (~isna(score) /\ score >= 1600)
        /\ (score = 0 - 10 => band = "Low")
        /\ (score \in {0, 790} => band = "Moderate")
        /\ (score \in {800, 1590} => band = "High")
        /\ (score = 1600 => band = "Extreme")

C1_Witness == score = 1600 /\ band = "Extreme"

----------------------------------------------------------------------------
(* Properties of calculate_zscore *)

Computed == op = "calculate_zscore"

AllEqualNonNull(s) ==
    /\ Len(s) >= 1
    /\ \A i \in DOMAIN s : ~isna(s[i]) /\ s[i] = s[1]

DistinctNonNull(s) == Cardinality({s[i] : i \in NonNull(s)}) >= 2

\* z is (x - mean) / std of column s in hundredths truncated toward zero, where
\* std divides the squared deviations by (count - ddof); stated by the defining
\* inequality of the quotient, without computing a square root
IsZOf(z, s, x, ddof) ==
    LET n == count(s)
        d == n * x - sum(s)
        Q == n * sumsq(s) - sum(s) * sum(s)
    IN  /\ z * z * n * Q <= ZScale * ZScale * d * d * (n - ddof)
        /\ ZScale * ZScale * d * d * (n - ddof) < (Abs(z) + 1) * (Abs(z) + 1) * n * Q
        /\ (d > 0 => z >= 0)
        /\ (d < 0 => z <= 0)

(* C4: on a column of equal non-null values (a one-row column included)
   calculate_zscore returns 0.0 for every entry, on an all-null column it
   returns null for every entry, and the result always has the length and
   index of the input. *)
C4_ConstantAndNullColumns ==
    Computed =>
        /\ DOMAIN zs = DOMAIN series
        /\ (AllEqualNonNull(series) => \A i \in DOMAIN zs : zs[i] = 0)
        /\ ((\A i \in DOMAIN series : isna(series[i])) => \A i \in DOMAIN zs : isna(zs[i]))

C4_Witness == series = <<2>> /\ zs = <<0>>

(* C5 as stated: with at least two distinct non-null values, every non-null
   entry gets (x - mean) / std with the POPULATION standard deviation
   (divisor N), and the nulls stay null. *)
C5_PopulationStd ==
    (Computed /\ DistinctNonNull(series)) =>
        \A i \in DOMAIN series :
            /\ isna(zs[i]) <=> isna(series[i])
            /\ (~isna(series[i]) => IsZOf(zs[i], series, series[i], 0))

(* C5 amended: with at least two distinct non-null values, every non-null
   entry gets (x - mean) / std where std is the SAMPLE standard deviation of
   the non-null values (divisor N-1, the default of Series.std), and the
   result is null at exactly the positions where the input is null. *)
C5_SampleStd ==
    (Computed /\ DistinctNonNull(series)) =>
        \A i \in DOMAIN series :
            /\ isna(zs[i]) <=> isna(series[i])
            /\ (~isna(series[i]) => IsZOf(zs[i], series, series[i], 1))

C5_Witness == series = <<0, NaN, 1>> /\ zs = <<0 - 70, NaN, 70>>

----------------------------------------------------------------------------
(* Properties of the transforms *)

\* the band of the fixed intervals, written out
BandOf(s) ==
    IF s < 0 THEN "Low"
    ELSE IF s < 800 THEN "Moderate"
    ELSE IF s < 1600 THEN "High"
    ELSE "Extreme"

BandMatches(row, score_col, band_col) ==
    /\ (row[band_col] = "Unknown") <=> isna(row[score_col])
    /\ (~isna(row[score_col]) => row[band_col] = BandOf(row[score_col]))

(* C2: in every table returned by apply_all_transforms, for every row and
   for both pairs fire_risk_score/fire_risk_band and
   exposure_score/exposure_band, the band is Unknown iff the score is null,
   and otherwise it is the band of the fixed intervals. *)
C2_BandIffScore ==
    op = "apply_all_transforms" =>
        \A i \in DOMAIN out.rows :
            /\ BandMatches(out.rows[i], "fire_risk_score", "fire_risk_band")
            /\ BandMatches(out.rows[i], "exposure_score", "exposure_band")

C2_Witness ==
    /\ op = "apply_all_transforms"
    /\ Len(out.rows) = 2
    /\ isna(out.rows[1].fire_risk_score) /\ out.rows[1].fire_risk_band = "Unknown"
    /\ out.rows[1].exposure_score = 700 /\ out.rows[1].exposure_band = "Moderate"
    /\ out.rows[2].exposure_score = 0 - 700 /\ out.rows[2].exposure_band = "Low"

(* C3: whenever air_temperature, rel_humidity or wind_spd_kmh is null in a
   row, calculate_fire_risk gives that row a null fire_risk_score and the
   band Unknown, whatever the other rows hold. *)
C3_NullInputNullScore ==
    op = "calculate_fire_risk" =>
        \A i \in DOMAIN df.rows :
            (\/ isna(df.rows[i].air_temperature)
             \/ isna(df.rows[i].rel_humidity)
             \/ isna(df.rows[i].wind_spd_kmh))
            => /\ isna(out.rows[i].fire_risk_score)
               /\ out.rows[i].fire_risk_band = "Unknown"

C3_Reached ==
    /\ op = "calculate_fire_risk"
    /\ \E i \in DOMAIN df.rows : isna(df.rows[i].air_temperature)

(* C6: the fire_risk_score of a row is z(air_temperature) - z(rel_humidity)
   + 0.5 * z(wind_spd_kmh), each z being the z-score of the row's value in
   its column over the whole table (null as soon as one of them is null). *)
C6_FireFormula ==
    op = "calculate_fire_risk" =>
        LET zt == calculate_zscore(Column(df, "air_temperature"))
            zh == calculate_zscore(Column(df, "rel_humidity"))
            zw == calculate_zscore(Column(df, "wind_spd_kmh"))
        IN  \A i \in DOMAIN df.rows :
                IF isna(zt[i]) \/ isna(zh[i]) \/ isna(zw[i])
                THEN isna(out.rows[i].fire_risk_score)
                ELSE 2 * out.rows[i].fire_risk_score * ZScale
                        = ScoreScale * (2 * zt[i] - 2 * zh[i] + zw[i])

C6_Witness ==
    /\ op = "calculate_fire_risk"
    /\ Len(out.rows) = 2
    /\ df.rows[1].air_temperature = 1 /\ df.rows[2].air_temperature = 0
    /\ df.rows[1].rel_humidity = 0 /\ df.rows[2].rel_humidity = 1
    /\ df.rows[1].wind_spd_kmh = 1 /\ df.rows[2].wind_spd_kmh = 0
    /\ out.rows[1].fire_risk_score = 1750
    /\ out.rows[2].fire_risk_score = 0 - 1750

(* C7: the exposure_score of a row is z(wind_spd_kmh) + 0.7 * z(gust_kmh)
   over the whole table, and is null when either z-score of the row is
   null. *)
C7_ExposureFormula ==
    op = "calculate_coastal_exposure" =>
        LET zw == calculate_zscore(Column(df, "wind_spd_kmh"))
            zg == calculate_zscore(Column(df, "gust_kmh"))
        IN  \A i \in DOMAIN df.rows :
                IF isna(zw[i]) \/ isna(zg[i])
                THEN isna(out.rows[i].exposure_score)
                ELSE 10 * out.rows[i].exposure_score * ZScale
                        = ScoreScale * (10 * zw[i] + 7 * zg[i])

C7_Witness ==
    /\ op = "calculate_coastal_exposure"
    /\ Len(out.rows) = 2
    /\ df.rows[1].wind_spd_kmh = 1 /\ df.rows[2].wind_spd_kmh = 0
    /\ df.rows[1].gust_kmh = 1 /\ df.rows[2].gust_kmh = 0
    /\ out.rows[1].exposure_score = 1190
    /\ out.rows[2].exposure_score = 0 - 1190

(* C8: detect_pressure_drops sets pressure_alert to true for a row exactly
   when its msl_pres is non-null and strictly below the mean of the non-null
   msl_pres plus the threshold -3.0; a row with null msl_pres always has
   pressure_alert = false, and so has every row when all pressures are
   null. *)
C8_PressureAlert ==
    op = "detect_pressure_drops" =>
        LET p == Column(df, "msl_pres")
            present == {i \in DOMAIN p : p[i] # NaN}
            n == Cardinality(present)
            total == SumOver(p, present)
        IN  \A i \in DOMAIN df.rows :
                /\ out.rows[i].pressure_alert \in BOOLEAN
                /\ out.rows[i].pressure_alert
                     <=> (i \in present /\ n * p[i] < total + n * PRESSURE_ALERT_DEVIATION)
                /\ (i \notin present => out.rows[i].pressure_alert = FALSE)

C8_Witness ==
    /\ op = "detect_pressure_drops"
    /\ Len(out.rows) = 3
    /\ isna(df.rows[1].msl_pres) /\ df.rows[2].msl_pres = 10000 /\ df.rows[3].msl_pres = 10080
    /\ out.rows[1].pressure_alert = FALSE
    /\ out.rows[2].pressure_alert = TRUE
    /\ out.rows[3].pressure_alert = FALSE

----------------------------------------------------------------------------
(* Properties of parse_observations_xml *)

Parsed == op = "parse_observations_xml"

MeasurementCols ==
    {"air_temperature", "rel_humidity", "wind_spd_kmh", "gust_kmh",
     "vis_km", "msl_pres", "rainfall"}

HasPeriod(station) == station.periods # <<>>

\* the stations that have a <period>, in document order
Emitting(d) == SelectSeq(d.stations, HasPeriod)

\* the element types present in the first <level> of a station's first period
TypesPresent(station) ==
    IF station.periods[1].levels = <<>> THEN {}
    ELSE {station.periods[1].levels[1][k].type : k \in DOMAIN station.periods[1].levels[1]}

\* the element type that feeds a measurement column
TypeOfColumn(c) == IF c = "rel_humidity" THEN "rel-humidity" ELSE c

FloatOrNull(x) == x \in Int
IsString(x) == x \in STRING /\ x # PyNone
StringOrNull(x) == x \in STRING

RowHasBaseFields(row) ==
    /\ DOMAIN row = Range(expected_cols)
    /\ Cardinality(DOMAIN row) = 13
    /\ FloatOrNull(row.lat) /\ FloatOrNull(row.lon)
    /\ \A c \in MeasurementCols : FloatOrNull(row[c])

AbsentIsNull(d) ==
    \A k \in DOMAIN obs.rows :
        k <= Len(Emitting(d)) =>
            \A c \in MeasurementCols :
                TypeOfColumn(c) \notin TypesPresent(Emitting(d)[k]) => isna(obs.rows[k][c])

(* C9 as stated: every row output by parse_observations_xml has exactly the
   13 base fields; lat, lon and the seven measurements are each a float or
   null; station_id, station_name, time_local and time_utc are each a
   string; a measurement whose element is absent is null, never omitted. *)
C9_RowsTyped ==
    Parsed =>
        /\ \A k \in DOMAIN obs.rows :
            /\ RowHasBaseFields(obs.rows[k])
            /\ IsString(obs.rows[k].station_id)
            /\ IsString(obs.rows[k].station_name)
            /\ IsString(obs.rows[k].time_local)
            /\ IsString(obs.rows[k].time_utc)
        /\ AbsentIsNull(doc)

(* C9 amended: every row output by parse_observations_xml has exactly the 13
   base fields; lat, lon and the seven measurements are each a float or
   null; station_id and station_name are each a string; time_local and
   time_utc are each a string, or null when the first period lacks the
   time-local / time-utc attribute; a measurement whose element is absent is
   null, never omitted. *)
C9_RowsTypedTimesNullable ==
    Parsed =>
        /\ \A k \in DOMAIN obs.rows :
            /\ RowHasBaseFields(obs.rows[k])
            /\ IsString(obs.rows[k].station_id)
            /\ IsString(obs.rows[k].station_name)
            /\ StringOrNull(obs.rows[k].time_local)
            /\ StringOrNull(obs.rows[k].time_utc)
            /\ k <= Len(Emitting(doc)) =>
                /\ (obs.rows[k].time_local = PyNone)
                      <=> (Emitting(doc)[k].periods[1].time_local = PyNone)
                /\ (obs.rows[k].time_utc = PyNone)
                      <=> (Emitting(doc)[k].periods[1].time_utc = PyNone)
        /\ AbsentIsNull(doc)

C9_Witness ==
    /\ Parsed
    /\ Len(obs.rows) = 2
    /\ obs.rows[1].time_local = PyNone /\ obs.rows[1].time_utc = "02:00Z"
    /\ isna(obs.rows[1].air_temperature)
    /\ obs.rows[2].time_local = "10:00+08"
    /\ obs.rows[2].air_temperature = 235 /\ isna(obs.rows[2].rainfall)
    /\ obs.rows[2].station_id = "unknown"

(* C10: the table returned by parse_observations_xml always carries its
   fixed column set, for every input document: also when the document has no
   observations container, when the container has no station children, and
   when every station is skipped. *)
C10_FixedColumns ==
    Parsed => obs.columns = expected_cols

C10_Reached == Parsed /\ ~doc.observations

(* C11: parse_observations_xml emits no row for a station without a period
   child and exactly one row for every station with one, so the row count is
   the number of stations having a period, and the rows follow the document
   order of their stations. *)
C11_OneRowPerStationWithPeriod ==
    Parsed =>
        /\ Len(obs.rows)
             = Cardinality({k \in DOMAIN doc.stations : HasPeriod(doc.stations[k])})
        /\ \A k \in DOMAIN obs.rows :
              k <= Len(Emitting(doc)) =>
                LET station == Emitting(doc)[k]
                IN  /\ obs.rows[k].station_id
                         = (IF station.bom_id = PyNone THEN "unknown" ELSE station.bom_id)
                    /\ obs.rows[k].station_name
                         = (IF station.stn_name = PyNone THEN "Unknown" ELSE station.stn_name)
                    /\ obs.rows[k].time_local = station.periods[1].time_local
                    /\ obs.rows[k].time_utc = station.periods[1].time_utc

C11_Witness ==
    /\ Parsed
    /\ Len(doc.stations) = 2
    /\ ~HasPeriod(doc.stations[1]) /\ HasPeriod(doc.stations[2])
    /\ doc.stations[2].stn_name = PyNone
    /\ Len(obs.rows) = 1
    /\ obs.rows[1].station_name = "Unknown"

\* the attribute text gives a float
Parseable(text) == text # NoneText /\ text # <<>> /\ IsFloatLiteral(text)

(* C12: in every row output by parse_observations_xml, lat and lon are
   either both floats or both null: if either attribute is absent, empty or
   not parseable as a float, both fields are null. *)
C12_LatLonPaired ==
    Parsed =>
        \A k \in DOMAIN obs.rows :
            /\ isna(obs.rows[k].lat) <=> isna(obs.rows[k].lon)
            /\ k <= Len(Emitting(doc)) =>
                  ((~Parseable(Emitting(doc)[k].lat) \/ ~Parseable(Emitting(doc)[k].lon))
                      => (isna(obs.rows[k].lat) /\ isna(obs.rows[k].lon)))

C12_Reached ==
    /\ Parsed
    /\ Len(doc.stations) = 1
    /\ doc.stations[1].lat = NoneText /\ doc.stations[1].lon = Text_lat

\* the positions in the first <level> of a station's first period whose element
\* has the type that feeds column c
Feeding(station, c) ==
    IF station.periods[1].levels = <<>> THEN {}
    ELSE {j \in DOMAIN station.periods[1].levels[1] :
             station.periods[1].levels[1][j].type = TypeOfColumn(c)}

(* C13: for a station with several period children, the row's time_local,
   time_utc and all seven measurements come only from the first period child
   in document order (a measurement is the value of the last element of its
   type there, null when there is none); elements of later periods and
   elements of an unrecognized type change no field of the row. *)
C13_FirstPeriodOnly ==
    Parsed =>
        \A k \in DOMAIN obs.rows :
            k <= Len(Emitting(doc)) =>
                LET station == Emitting(doc)[k]
                    first == station.periods[1]
                IN  /\ obs.rows[k].time_local = first.time_local
                    /\ obs.rows[k].time_utc = first.time_utc
                    /\ \A c \in MeasurementCols :
                          LET js == Feeding(station, c)
                          IN  IF js = {} THEN isna(obs.rows[k][c])
                              ELSE LET last == CHOOSE j \in js : \A i \in js : i <= j
                                   IN  obs.rows[k][c] = to_float(first.levels[1][last].text)

C13_Witness ==
    /\ Parsed
    /\ Len(doc.stations) = 2
    /\ doc.stations[1].periods = <<BasePeriod, LaterPeriod>>
    /\ doc.stations[2].periods
         = <<Period("10:00+08", "02:00Z",
                    << <<Element("rainfall", Text_18), Element("cloud", Text_23_5)>> >>)>>
    /\ Len(obs.rows) = 2
    /\ obs.rows[1].time_local = "10:00+08"
    /\ obs.rows[1].air_temperature = 235 /\ isna(obs.rows[1].rainfall)
    /\ obs.rows[2].rainfall = 180 /\ isna(obs.rows[2].air_temperature)

----------------------------------------------------------------------------
(* Properties of parse_forecasts_xml *)

Forecasted == op = "parse_forecasts_xml"

IsLocation(area) == area.type = "location"

\* what a row shows of the area it was made from
AreaName(area) == IF area.description = NoneText THEN Text_Unknown ELSE area.description
AreaCode(area) == IF area.aac = PyNone THEN "unknown" ELSE area.aac

\* the forecast-period children of the location areas, as (area, period) positions
LocationPeriods(d) ==
    UNION {{<<k, j>> : j \in DOMAIN d.areas[k].periods} :
              k \in {i \in DOMAIN d.areas : IsLocation(d.areas[i])}}

(* C14: every row output by parse_forecasts_xml comes from an area whose
   type attribute equals 'location'; an area with any other type, or with
   no type attribute, contributes no row. *)
C14_OnlyLocationAreas ==
    Forecasted =>
        /\ \A r \in DOMAIN fcst.rows :
              \E p \in LocationPeriods(fdoc) :
                  /\ fcst.rows[r].locality_name = AreaName(fdoc.areas[p[1]])
                  /\ fcst.rows[r].area_code = AreaCode(fdoc.areas[p[1]])
                  /\ fcst.rows[r].fcst_time = fdoc.areas[p[1]].periods[p[2]].start_time_local
        /\ \A k \in DOMAIN fdoc.areas :
              (\A i \in DOMAIN fdoc.areas :
                  IsLocation(fdoc.areas[i]) => AreaName(fdoc.areas[i]) # AreaName(fdoc.areas[k]))
              => \A r \in DOMAIN fcst.rows :
                     fcst.rows[r].locality_name # AreaName(fdoc.areas[k])

C14_Witness ==
    /\ Forecasted
    /\ Len(fdoc.areas) = 2
    /\ fdoc.areas[1] = Area(Text_Albany, "WA_PT053", "public-district", <<Day(1), Day(0)>>)
    /\ fdoc.areas[2] = Area(Text_Perth, "WA_PT053", "location", <<Day(1), Day(0)>>)
    /\ Len(fcst.rows) = 2
    /\ fcst.rows[1].locality_name = Text_Perth /\ fcst.rows[2].locality_name = Text_Perth

(* C15: parse_forecasts_xml emits exactly one row per forecast-period child
   of every location-type area, with no truncation: the row count is the
   total number of forecast-period children over all location areas, also
   with an absent or malformed index attribute and with more than 7 periods
   in an area. *)
C15_OneRowPerPeriod ==
    Forecasted =>
        /\ Len(fcst.rows) = Cardinality(LocationPeriods(fdoc))
        /\ \A k \in DOMAIN fdoc.areas :
              IsLocation(fdoc.areas[k]) =>
                  Cardinality({r \in DOMAIN fcst.rows :
                                  fcst.rows[r].locality_name = AreaName(fdoc.areas[k])})
                    = Cardinality({p \in LocationPeriods(fdoc) :
                                  AreaName(fdoc.areas[p[1]]) = AreaName(fdoc.areas[k])})

C15_Witness ==
    /\ Forecasted
    /\ Len(fdoc.areas) = 2
    /\ IsLocation(fdoc.areas[1]) /\ Len(fdoc.areas[1].periods) > 7
    /\ IsLocation(fdoc.areas[2])
    /\ fdoc.areas[2].periods = <<Indexed(Text_abc), Day(0)>>
    /\ Len(fcst.rows) = Len(fdoc.areas[1].periods) + 2

\* how often a row occurs in a list of rows
Occurrences(rows, row) == Cardinality({r \in DOMAIN rows : rows[r] = row})

(* C16: the output of parse_forecasts_xml is sorted ascending by
   (locality_name, period_index): the locality names never decrease, so the
   rows of one locality are contiguous, and within a locality the period
   indexes never decrease (a null index stands after the numbers); periods
   indexed [2,0,1] come out as [0,1,2]; the output is a permutation of the
   emitted rows. *)
C16_SortedPermutation ==
    Forecasted =>
        LET rows == fcst.rows
            emitted == Reindex(ForecastRecords(fdoc.areas, 1), forecast_cols).rows
        IN  /\ \A r \in DOMAIN rows :
                  r < Len(rows) =>
                      /\ ~str_lt(rows[r + 1].locality_name, rows[r].locality_name)
                      /\ rows[r + 1].locality_name = rows[r].locality_name =>
                            \/ isna(rows[r + 1].period_index)
                            \/ /\ ~isna(rows[r].period_index)
                               /\ rows[r].period_index <= rows[r + 1].period_index
            /\ \A a \in DOMAIN rows : \A b \in DOMAIN rows : \A c \in DOMAIN rows :
                  (a < b /\ b < c /\ rows[a].locality_name = rows[c].locality_name)
                      => rows[b].locality_name = rows[a].locality_name
            /\ Len(rows) = Len(emitted)
            /\ \A r \in DOMAIN emitted :
                  Occurrences(rows, emitted[r]) = Occurrences(emitted, emitted[r])

C16_Witness ==
    /\ Forecasted
    /\ Len(fdoc.areas) = 2
    /\ fdoc.areas[1] = Area(Text_Perth, "WA_PT053", "location", <<Day(2), Day(0), Day(1)>>)
    /\ fdoc.areas[2] = Area(Text_Albany, "WA_PT053", "location", <<Day(1), Day(0)>>)
    /\ Len(fcst.rows) = 5
    /\ [r \in 1..5 |-> fcst.rows[r].locality_name]
         = <<Text_Albany, Text_Albany, Text_Perth, Text_Perth, Text_Perth>>
    /\ [r \in 1..5 |-> fcst.rows[r].period_index] = <<0, 1, 0, 1, 2>>
    /\ [r \in 1..5 |-> fcst.rows[r].fcst_time] = <<"Mon", "Tue", "Mon", "Tue", "Wed">>

----------------------------------------------------------------------------
(* Properties of to_float *)

Converted == op = "to_float"

\* numeric text: an optional sign, then digits with at most one point among
\* them and at least one digit
Numeric(text) ==
    LET body == IF text # <<>> /\ text[1] \in {"+", "-"} THEN Tail(text) ELSE text
    IN  /\ \A k \in DOMAIN body : body[k] \in {"2", "3", "5", "."}
        /\ \A j \in DOMAIN body : \A k \in DOMAIN body :
              (body[j] = "." /\ body[k] = ".") => j = k
        /\ \E k \in DOMAIN body : body[k] # "."

(* C17: to_float never raises for any input: null and the empty string give
   null, text that is not numeric and values of a wrong type give null, and
   numeric text gives its float value (to_float("23.5") = 23.5). *)
C17_ToFloatTotal ==
    Converted =>
        /\ raised = NoError
        /\ (arg \in {NoneText, <<>>, PyList} => isna(ret))
        /\ (arg \notin {NoneText, PyList} => (isna(ret) <=> ~Numeric(arg)))
        /\ (arg = <<"a", "b", "c">> => isna(ret))
        /\ (arg = <<"2", "3", ".", "5">> => ret = 235)
        /\ (arg = <<"-", "2", ".", "5">> => ret = 0 - 25)
        /\ (arg = <<"3", "5">> => ret = 350)
        /\ (arg = <<".", "5">> => ret = 5)
        /\ (arg = <<"2", ".">> => ret = 20)
        /\ (arg \in {<<"2", "-", "3">>, <<"2", ".", "3", ".">>, <<"-">>, <<".">>, <<"-", "-", "2">>}
               => isna(ret))

C17_Witness ==
    Converted /\ arg = <<"2", "3", ".", "5">> /\ ret = 235 /\ raised = NoError

----------------------------------------------------------------------------
(* Properties of both parsers *)

\* the forecast-periods of location areas whose index is absent or not an integer
BadIndexPeriods(d) ==
    {p \in LocationPeriods(d) :
        LET index == d.areas[p[1]].periods[p[2]].index
            body == IF index # <<>> /\ index[1] \in {"+", "-"} THEN Tail(index) ELSE index
        IN  \/ index = NoneText
            \/ body = <<>>
            \/ \E k \in DOMAIN body : ~IsDigit(body[k])}

(* C18: parse_observations_xml and parse_forecasts_xml never raise on a
   well-formed document: a missing attribute, a non-numeric element value, a
   missing element or level, a malformed or absent period index (which
   becomes a null period_index) and a station with no period are absorbed as
   nulls or as row omission. *)
C18_ParsersNeverRaise ==
    /\ Parsed =>
          /\ raised = NoError
          /\ Len(obs.rows) = Len(Emitting(doc))
    /\ Forecasted =>
          /\ raised = NoError
          /\ Len(fcst.rows) = Cardinality(LocationPeriods(fdoc))
          /\ Cardinality({r \in DOMAIN fcst.rows : isna(fcst.rows[r].period_index)})
               = Cardinality(BadIndexPeriods(fdoc))

C18_Witness ==
    /\ Forecasted
    /\ raised = NoError
    /\ Len(fdoc.areas) = 2
    /\ fdoc.areas[1].periods = <<Indexed(Text_abc), Day(0)>>
    /\ fdoc.areas[2].periods = <<Day(1), Indexed(NoneText), Day(0)>>
    /\ IsLocation(fdoc.areas[1]) /\ IsLocation(fdoc.areas[2])
    /\ Len(fcst.rows) = 5
    /\ [r \in 1..5 |-> fcst.rows[r].period_index] = <<0, 0, 1, NaN, NaN>>

----------------------------------------------------------------------------
(* Properties of fetch_xml *)

Fetched == op = "fetch_xml"

\* connection failure, timeout or a status outside 200..299
TransportError(answer) ==
    answer.transport # "ok" \/ answer.status < 200 \/ answer.status > 299

(* C19 as stated: fetch_xml fails with FetchError on any transport error
   (connection failure, timeout, non-2xx status) and with ParseError when
   the body is not well-formed XML; the two kinds are distinguishable by the
   caller, and fetch_xml makes exactly one request per call. *)
C19_FetchErrorOrParseError ==
    Fetched =>
        /\ requests = 1
        /\ TransportError(net) => raised.type = "FetchError"
        /\ (~TransportError(net) /\ ~net.body.well_formed) => raised.type = "ParseError"
        /\ (~TransportError(net) /\ net.body.well_formed)
              => (raised = NoError /\ root = net.body.root)

\* connection failure, timeout or a status in 400..599
RequestFailed(answer) ==
    answer.transport # "ok" \/ (400 <= answer.status /\ answer.status <= 599)

(* C19 amended: fetch_xml fails with a plain Exception in both cases, whose
   message begins "Failed to fetch data from" on a connection failure, a
   timeout or a 4xx/5xx status, and "Failed to parse XML from" when the
   body of any other response is not well-formed XML, so the two kinds differ
   in the message only; otherwise it returns the parsed document; it makes
   exactly one request per call. *)
C19_ExceptionWithMessage ==
    Fetched =>
        /\ requests = 1
        /\ RequestFailed(net) => raised = Raise("Exception", "Failed to fetch data from")
        /\ (~RequestFailed(net) /\ ~net.body.well_formed)
              => raised = Raise("Exception", "Failed to parse XML from")
        /\ (~RequestFailed(net) /\ net.body.well_formed)
              => (raised = NoError /\ root = net.body.root)

C19_Witness ==
    /\ Fetched
    /\ net = Answer("ok", 200, Malformed)
    /\ requests = 1
    /\ raised = Raise("Exception", "Failed to parse XML from")

----------------------------------------------------------------------------
(* Properties of the ingest functions *)

Ingested == op \in {"get_observations", "get_forecasts"}

\* the table the parser of the function called makes of a document
ParsedBy(name, document) ==
    IF name = "get_observations" THEN parse_observations_xml(document)
    ELSE parse_forecasts_xml(document)

\* the last call fetched a well-formed document and returned its table
FreshTable ==
    /\ requests = 1
    /\ net.transport = "ok" /\ net.status = 200 /\ net.body.well_formed
    /\ returned.df = ParsedBy(op, net.body.root)
    /\ ~isna(returned.fetch_time)

(* C20: every invocation of get_observations / get_forecasts ends either
   with a table freshly fetched and parsed in that invocation or with an
   explicit failure propagated to the caller; it never returns data obtained
   by an earlier invocation and never turns a failure into a table. *)
C20_FreshOrFailure ==
    Ingested => (FreshTable \/ raised # NoError)

\* a failed fetch came back as an empty table, and was served again later
C20_Reached ==
    /\ op = "get_observations"
    /\ requests = 0
    /\ raised = NoError
    /\ returned = Returned(DataFrame(<<>>, <<>>), NaN)

----------------------------------------------------------------------------
(* C21: when the fetch of a feed fails during a Refresh, the table the session
   holds for that feed is still the table it held before the click (the last
   good table is retained, not replaced by an empty one).  The Refresh step is
   the one that leaves the page waiting for its rerun; the fetch of a feed
   failed exactly when the time loaded for it is None. *)
RefreshStep == page.status # "rerun" /\ page'.status = "rerun"

C21_FailedRefreshKeepsTable ==
    [][RefreshStep =>
          /\ isna(cache'.load_all_data.value.obs_time) => session'.df_obs = session.df_obs
          /\ isna(cache'.load_all_data.value.fcst_time) => session'.df_fcst = session.df_fcst]_vars

(* C22: on a page that draws the dashboards under a "Last update" caption, the
   time the caption shows for a feed is the fetch time of the table drawn for
   that feed. *)
C22_CaptionTimeOfRenderedTable ==
    (page.status = "rendered" /\ page.caption = "Last update") =>
        /\ page.shown_obs_time = page.obs_time
        /\ page.shown_fcst_time = page.fcst_time

(* C30: the times the session holds are never None once they are in the
   session, which is when the sidebar formats them with strftime. *)
C30_SessionTimesNeverNull ==
    session.present => ~isna(session.obs_time) /\ ~isna(session.fcst_time)

(* C23: apply_all_transforms returns the rows of its input in the same order,
   with the thirteen base columns unchanged, followed by exactly the eight
   derived columns; the input table is as it was. *)
Applied == op = "apply_all_transforms"

C23_BaseKeptEightAdded ==
    Applied =>
        /\ out.columns = expected_cols \o derived_cols
        /\ df.columns = expected_cols
        /\ Len(out.rows) = Len(df.rows)
        /\ \A i \in DOMAIN df.rows :
              /\ DOMAIN out.rows[i] = Range(out.columns)
              /\ \A c \in Range(expected_cols) : out.rows[i][c] = df.rows[i][c]

C23_Witness ==
    /\ Applied
    /\ Len(df.rows) = 2
    /\ df.rows[1].station_name = "Perth" /\ out.rows[2].station_name = "Albany"
    /\ ~isna(out.rows[1].fire_risk_score)
    /\ out.rows[1].air_temperature = 1 /\ out.rows[2].air_temperature = 0

(* C24: applying apply_all_transforms to its own output changes nothing: the
   same columns, and in every row the same value in each derived column. *)
C24_Idempotent ==
    Applied =>
        LET again == apply_all_transforms(out)
        IN  /\ again.columns = out.columns
            /\ Len(again.rows) = Len(out.rows)
            /\ \A i \in DOMAIN out.rows : \A c \in Range(derived_cols) :
                  again.rows[i][c] = out.rows[i][c]

C24_Witness ==
    /\ Applied
    /\ Len(out.rows) = 2
    /\ ~isna(out.rows[1].fire_risk_score) /\ out.rows[1].fire_risk_score # 0
    /\ \E i \in DOMAIN out.rows : ~isna(out.rows[i].exposure_score)
    /\ apply_all_transforms(out).rows[1].fire_risk_score = out.rows[1].fire_risk_score

(* C25: in every row rain_intensity_mmh is six times rainfall, rain_1h_est and
   rain_24h are rainfall, and each of the three is null exactly when rainfall
   is null. *)
C25_RainfallMetrics ==
    op \in {"calculate_rainfall_metrics", "apply_all_transforms"} =>
        \A i \in DOMAIN out.rows :
            LET r == df.rows[i].rainfall
                o == out.rows[i]
            IN  /\ o.rainfall = r
                /\ o.rain_1h_est = r /\ o.rain_24h = r
                /\ isna(o.rain_intensity_mmh) <=> isna(r)
                /\ ~isna(r) => o.rain_intensity_mmh = 6 * r

C25_Witness ==
    /\ op = "calculate_rainfall_metrics"
    /\ Len(out.rows) = 2
    /\ df.rows[1].rainfall = 2 /\ out.rows[1].rain_intensity_mmh = 12
    /\ isna(df.rows[2].rainfall) /\ isna(out.rows[2].rain_24h)

(* C26: on a table with no row of non-null score a summary function does not
   raise and returns no statistics: the empty dict when the table is empty or
   lacks the score column, and otherwise a dict with the one key 'error' and
   the message 'No valid <score_col> data'; get_coastal_summary adds
   low_visibility_count to either whenever the table is not empty. *)
Summarised ==
    op \in {"get_summary_for_score", "get_fire_risk_summary", "get_coastal_summary"}

NoScoreColumn == empty(df) \/ arg[1] \notin Range(df.columns)

ZeroValid == Summarised /\ (NoScoreColumn \/ notna_rows(df, arg[1]) = {})

C26_NoDataResults ==
    ZeroValid =>
        /\ raised = NoError
        /\ DOMAIN summary \subseteq {"error", "low_visibility_count"}
        /\ "error" \in DOMAIN summary <=> ~NoScoreColumn
        /\ "error" \in DOMAIN summary => summary.error = <<"No valid ", arg[1], " data">>
        /\ "low_visibility_count" \in DOMAIN summary
              <=> (op = "get_coastal_summary" /\ ~empty(df))

(* C26 as stated: every such table gets one and the same 'no data' result,
   the one the empty table gets. *)
C26_SingleNoDataResult ==
    ZeroValid =>
        /\ raised = NoError
        /\ summary = get_summary_for_score(DataFrame(<<>>, <<>>), arg[1], arg[2])

C26_Witness ==
    /\ op = "get_fire_risk_summary"
    /\ Len(df.rows) = 2
    /\ "fire_risk_score" \in Range(df.columns)
    /\ \A i \in DOMAIN df.rows : isna(df.rows[i].fire_risk_score)
    /\ DOMAIN summary = {"error"}

(* C27: over the rows with a non-null score, the summary reports the greatest
   score, the station and band of the first row that has it, the mean of the
   scores (in thousandths, truncated) and the number of those rows. *)
HighestStation ==
    IF op = "get_fire_risk_summary" THEN summary.highest_risk_station
    ELSE IF op = "get_coastal_summary" THEN summary.highest_exposure_station
    ELSE summary.highest_station

HighestScore ==
    IF op = "get_fire_risk_summary" THEN summary.highest_risk_score
    ELSE IF op = "get_coastal_summary" THEN summary.highest_exposure_score
    ELSE summary.highest_score

HighestBand ==
    IF op = "get_fire_risk_summary" THEN summary.highest_risk_band
    ELSE IF op = "get_coastal_summary" THEN summary.highest_exposure_band
    ELSE summary.highest_band

C27_SummaryOverValidRows ==
    (Summarised /\ ~ZeroValid /\ raised = NoError) =>
        LET valid == notna_rows(df, arg[1])
            total == SumOver(Column(df, arg[1]), valid)
            n == Cardinality(valid)
        IN  /\ \A i \in valid : df.rows[i][arg[1]] <= HighestScore
            /\ \E i \in valid :
                  /\ df.rows[i][arg[1]] = HighestScore
                  /\ \A j \in valid : j < i => df.rows[j][arg[1]] < HighestScore
                  /\ HighestStation = df.rows[i].station_name
                  /\ HighestBand = df.rows[i][arg[2]]
            /\ summary.stations_with_data = n
            /\ Abs(total - n * summary.mean_score) < n
            /\ summary.mean_score * total >= 0

C27_Witness ==
    /\ op = "get_summary_for_score" /\ raised = NoError
    /\ arg = <<"fire_risk_score", "fire_risk_band">>
    /\ Len(df.rows) = 3
    /\ ~isna(df.rows[1].fire_risk_score)
    /\ df.rows[1].fire_risk_score = df.rows[2].fire_risk_score
    /\ df.rows[3].fire_risk_score < df.rows[1].fire_risk_score
    /\ summary.highest_station = "Perth"
    /\ summary.highest_band = "Moderate"
    /\ summary.stations_with_data = 3

(* C28: on a table of three stations whose temperature, humidity and wind are
   all present and none of them constant, the fire risk scores sum to zero (to
   within the truncation of the z-scores, below 0.025 per station) and the
   station get_fire_risk_summary reports as highest has the greatest score. *)
Varies(c) ==
    /\ \A i \in DOMAIN df.rows : ~isna(df.rows[i][c])
    /\ \E i, j \in DOMAIN df.rows : df.rows[i][c] # df.rows[j][c]

ThreeStations ==
    /\ op = "get_fire_risk_summary"
    /\ Len(df.rows) = 3
    /\ "fire_risk_score" \in Range(df.columns)
    /\ Varies("air_temperature") /\ Varies("rel_humidity") /\ Varies("wind_spd_kmh")

C28_ScoresSumToZero ==
    ThreeStations =>
        /\ \A i \in DOMAIN df.rows : ~isna(df.rows[i].fire_risk_score)
        /\ Abs(SumOver(Column(df, "fire_risk_score"), DOMAIN df.rows)) < 25 * Len(df.rows)
        /\ \E i \in DOMAIN df.rows :
              /\ summary.highest_risk_station = df.rows[i].station_name
              /\ summary.highest_risk_score = df.rows[i].fire_risk_score
              /\ \A j \in DOMAIN df.rows :
                    df.rows[j].fire_risk_score <= df.rows[i].fire_risk_score

C28_Witness ==
    /\ ThreeStations
    /\ df.rows[1].air_temperature = 0 /\ df.rows[2].air_temperature = 3
    /\ df.rows[2].rel_humidity = 0 /\ df.rows[2].wind_spd_kmh = 1
    /\ df.rows[1].rel_humidity = 2 /\ df.rows[3].wind_spd_kmh = 0
    /\ summary.highest_risk_station = "Albany"
    /\ summary.highest_risk_score > 1000

(* C29: get_weather_emoji does not raise; it returns the glyph of null codes
   for a null code, the glyph the icon map holds for a code whose integer part
   is in the map, and the default glyph for every other code; the default
   glyph is not the glyph of null codes. *)
CodeIsNull == icon_code.type = "NoneType" \/ (icon_code.type = "float" /\ isna(icon_code.value))

\* a code that is a number, as a float or as text
CodeIsFinite ==
    \/ icon_code.type = "float" /\ ~isna(icon_code.value)
                                /\ icon_code.value \notin {PosInf, NegInf}
    \/ icon_code.type = "str" /\ IsFloatLiteral(icon_code.text)

IntegerPart ==
    LET x == IF icon_code.type = "str" THEN FloatValue(icon_code.text) ELSE icon_code.value
    IN  IF x < 0 THEN 0 - ((0 - x) \div 10) ELSE x \div 10

C29_GlyphForEveryCode ==
    op = "get_weather_emoji" =>
        /\ raised = NoError
        /\ DEFAULT_WEATHER_ICON # "U+2753"
        /\ CodeIsNull => emoji = "U+2753"
        /\ (~CodeIsNull /\ CodeIsFinite /\ IntegerPart \in DOMAIN WEATHER_ICON_MAP)
              => emoji = WEATHER_ICON_MAP[IntegerPart]
        /\ (~CodeIsNull /\ ~(CodeIsFinite /\ IntegerPart \in DOMAIN WEATHER_ICON_MAP))
              => emoji = DEFAULT_WEATHER_ICON

====
